---- MODULE Spec2Model ----
(***************************************************************************)
(* A model of the kaosu-packer core: the geometry of src/src/geom.rs, the  *)
(* chromosome decoder ("placer") of src/src/placer.rs, the BRKGA driver of *)
(* src/src/ga.rs and the facade of src/src/lib.rs.                         *)
(*                                                                         *)
(* Indices are the Rust ones (0-based); a TLA+ sequence is 1-based, so the *)
(* element the code calls v[i] is v[i + 1] here.                           *)
(*                                                                         *)
(* A gene is an f32 in [0, 1).  It is modelled by its numerator over       *)
(* GeneDen: the gene k stands for the value k / GeneDen.                   *)
(***************************************************************************)
EXTENDS Integers, Sequences, FiniteSets, TLC

(***************************************************************************)
(* Bounds of the model.                                                    *)
(***************************************************************************)
\* genes are multiples of 1 / GeneDen
GeneDen == 8
\* the numerators a generated gene takes
Genes == {0, GeneDen - 1}

\* i32::MAX, the initial pruning thresholds of place_boxes
I32Max == 2147483647

Min2(a, b) == IF a <= b THEN a ELSE b
Max2(a, b) == IF a >= b THEN a ELSE b

\* the elements of a sequence
Range(s) == {s[i] : i \in 1..Len(s)}

(***************************************************************************)
(* src/src/geom.rs                                                         *)
(***************************************************************************)
Point(x, y, z) == [x |-> x, y |-> y, z |-> z]

Cuboid(w, d, h) == [width |-> w, depth |-> d, height |-> h]

Space(bl, ur) == [bottom_left |-> bl, upper_right |-> ur]

distance2_from(p, other) ==
    LET dx == p.x - other.x
        dy == p.y - other.y
        dz == p.z - other.z
    IN  dx * dx + dy * dy + dz * dz

scalar_less_than(p, other) ==
    p.x <= other.x /\ p.y <= other.y /\ p.z <= other.z

\* orientations_for without the test "height != width" before the fourth push
orientations_for_untested(tp, rect) ==
    LET only_2d == (tp = "TwoDimension")
        w == rect.width
        d == rect.depth
        h == rect.height
    IN  <<Cuboid(w, d, h)>>
        \o (IF w # d THEN <<Cuboid(d, w, h)>> ELSE <<>>)
        \o (IF ~only_2d /\ h # d
            THEN <<Cuboid(w, h, d), Cuboid(h, w, d)>>
            ELSE <<>>)
        \o (IF ~only_2d /\ w # d /\ h # w
            THEN <<Cuboid(h, d, w)>>
                 \o (IF h # d THEN <<Cuboid(d, h, w)>> ELSE <<>>)
            ELSE <<>>)

\* RotationType::orientations_for: the orientations in the order they are pushed
orientations_for(tp, rect) ==
    LET only_2d == (tp = "TwoDimension")
        w == rect.width
        d == rect.depth
        h == rect.height
    IN  <<Cuboid(w, d, h)>>
        \o (IF w # d THEN <<Cuboid(d, w, h)>> ELSE <<>>)
        \o (IF ~only_2d /\ h # d
            THEN <<Cuboid(w, h, d)>>
                 \o (IF h # w THEN <<Cuboid(h, w, d)>> ELSE <<>>)
            ELSE <<>>)
        \o (IF ~only_2d /\ w # d /\ h # w
            THEN <<Cuboid(h, d, w)>>
                 \o (IF h # d THEN <<Cuboid(d, h, w)>> ELSE <<>>)
            ELSE <<>>)

\* Cuboid::volume
volume(c) == c.width * c.depth * c.height

\* Space::width, Space::depth (the z extent), Space::height (the y extent)
width(s) == s.upper_right.x - s.bottom_left.x

depth(s) == s.upper_right.z - s.bottom_left.z

height(s) == s.upper_right.y - s.bottom_left.y

\* can_fit_in without the comparison of the depths
can_fit_in_flat(c, space) ==
    width(space) >= c.width /\ height(space) >= c.height

can_fit_in(c, space) ==
    width(space) >= c.width /\ height(space) >= c.height /\ depth(space) >= c.depth

from_placement(origin, rect) ==
    Space(origin, Point(origin.x + rect.width,
                        origin.y + rect.height,
                        origin.z + rect.depth))

contains(s, other) ==
    /\ scalar_less_than(s.bottom_left, other.bottom_left)
    /\ scalar_less_than(other.upper_right, s.upper_right)

\* intersects that compares one pair of corners only
intersects_one_sided(s, other) ==
    scalar_less_than(s.bottom_left, other.upper_right)

intersects(s, other) ==
    /\ scalar_less_than(s.bottom_left, other.upper_right)
    /\ scalar_less_than(other.bottom_left, s.upper_right)

\* Space::union: the clip of one space by the other
union(s, other) ==
    Space(Point(Max2(s.bottom_left.x, other.bottom_left.x),
                Max2(s.bottom_left.y, other.bottom_left.y),
                Max2(s.bottom_left.z, other.bottom_left.z)),
          Point(Min2(s.upper_right.x, other.upper_right.x),
                Min2(s.upper_right.y, other.upper_right.y),
                Min2(s.upper_right.z, other.upper_right.z)))

\* Space::volume, which placer.rs calls and geom.rs does not define: the
\* volume of the occupied space
space_volume(s) == width(s) * depth(s) * height(s)

(***************************************************************************)
(* src/src/placer.rs                                                       *)
(***************************************************************************)
\* impl From<T> for InnerBox
InnerBox(rect) ==
    [cuboid |-> rect,
     smallest_dimension |-> Min2(Min2(rect.height, rect.width), rect.depth),
     volume |-> volume(rect)]

\* rotate_cuboid that takes every rotation type for ThreeDimension
rotate_cuboid_any_axis(tp, cuboid) ==
    LET w == cuboid.width
        d == cuboid.depth
        h == cuboid.height
    IN  <<Cuboid(w, d, h)>>
        \o (IF w # d THEN <<Cuboid(d, w, h)>> ELSE <<>>)
        \o (IF h # d
            THEN <<Cuboid(w, h, d)>>
                 \o (IF h # w THEN <<Cuboid(h, w, d)>> ELSE <<>>)
            ELSE <<>>)
        \o (IF w # d /\ h # w
            THEN <<Cuboid(h, d, w)>>
                 \o (IF h # d THEN <<Cuboid(d, h, w)>> ELSE <<>>)
            ELSE <<>>)

\* rotate_cuboid, called on a cleared vector: the orientations pushed
rotate_cuboid(tp, cuboid) ==
    LET only_2d == (tp = "TwoDimension")
        w == cuboid.width
        d == cuboid.depth
        h == cuboid.height
    IN  <<Cuboid(w, d, h)>>
        \o (IF w # d THEN <<Cuboid(d, w, h)>> ELSE <<>>)
        \o (IF ~only_2d /\ h # d
            THEN <<Cuboid(w, h, d)>>
                 \o (IF h # w THEN <<Cuboid(h, w, d)>> ELSE <<>>)
            ELSE <<>>)
        \o (IF ~only_2d /\ w # d /\ h # w
            THEN <<Cuboid(h, d, w)>>
                 \o (IF h # d THEN <<Cuboid(d, h, w)>> ELSE <<>>)
            ELSE <<>>)

\* a filter that also discards the spaces that reach the thresholds exactly
new_space_filter_strict(ns, min_dimension, min_volume) ==
    LET w == width(ns)
        d == depth(ns)
        h == height(ns)
        v == w * d * h
    IN  Min2(Min2(w, d), h) > min_dimension /\ v > min_volume

\* the closure place_boxes hands to allocate_space
new_space_filter(ns, min_dimension, min_volume) ==
    LET w == width(ns)
        d == depth(ns)
        h == height(ns)
        v == w * d * h
    IN  Min2(Min2(w, d), h) >= min_dimension /\ v >= min_volume

\* difference_process whose second slab starts at the lower x of other, not
\* at its upper x
difference_process_from_lower(this, other, min_dimension, min_volume) ==
    LET sb == this.bottom_left
        su == this.upper_right
        ob == other.bottom_left
        ou == other.upper_right
        spaces == << Space(sb, Point(ob.x, su.y, su.z)),
                     Space(Point(ob.x, sb.y, sb.z), su),
                     Space(sb, Point(su.x, ob.y, su.z)),
                     Space(Point(sb.x, ou.y, sb.z), su),
                     Space(sb, Point(su.x, su.y, ob.z)),
                     Space(Point(sb.x, sb.y, ou.z), su) >>
        keep(ns) == /\ Min2(Min2(width(ns), depth(ns)), height(ns)) # 0
                    /\ new_space_filter(ns, min_dimension, min_volume)
    IN  SelectSeq(spaces, keep)

\* difference_process without its sixth slab
difference_process_five_way(this, other, min_dimension, min_volume) ==
    LET sb == this.bottom_left
        su == this.upper_right
        ob == other.bottom_left
        ou == other.upper_right
        spaces == << Space(sb, Point(ob.x, su.y, su.z)),
                     Space(Point(ou.x, sb.y, sb.z), su),
                     Space(sb, Point(su.x, ob.y, su.z)),
                     Space(Point(sb.x, ou.y, sb.z), su),
                     Space(sb, Point(su.x, su.y, ob.z)) >>
        keep(ns) == /\ Min2(Min2(width(ns), depth(ns)), height(ns)) # 0
                    /\ new_space_filter(ns, min_dimension, min_volume)
    IN  SelectSeq(spaces, keep)

\* difference_process whose third slab ends at the upper y of other, not at
\* its lower y
difference_process_to_upper(this, other, min_dimension, min_volume) ==
    LET sb == this.bottom_left
        su == this.upper_right
        ob == other.bottom_left
        ou == other.upper_right
        spaces == << Space(sb, Point(ob.x, su.y, su.z)),
                     Space(Point(ou.x, sb.y, sb.z), su),
                     Space(sb, Point(su.x, ou.y, su.z)),
                     Space(Point(sb.x, ou.y, sb.z), su),
                     Space(sb, Point(su.x, su.y, ob.z)),
                     Space(Point(sb.x, sb.y, ou.z), su) >>
        keep(ns) == /\ Min2(Min2(width(ns), depth(ns)), height(ns)) # 0
                    /\ new_space_filter(ns, min_dimension, min_volume)
    IN  SelectSeq(spaces, keep)

\* difference_process: the spaces it pushes, in order
difference_process(this, other, min_dimension, min_volume) ==
    LET sb == this.bottom_left
        su == this.upper_right
        ob == other.bottom_left
        ou == other.upper_right
        spaces == << Space(sb, Point(ob.x, su.y, su.z)),
                     Space(Point(ou.x, sb.y, sb.z), su),
                     Space(sb, Point(su.x, ob.y, su.z)),
                     Space(Point(sb.x, ou.y, sb.z), su),
                     Space(sb, Point(su.x, su.y, ob.z)),
                     Space(Point(sb.x, sb.y, ou.z), su) >>
        keep(ns) == /\ Min2(Min2(width(ns), depth(ns)), height(ns)) # 0
                    /\ new_space_filter(ns, min_dimension, min_volume)
    IN  SelectSeq(spaces, keep)

\* InnerBin::new and InnerBin::reset leave the same bin: nothing used, the
\* whole interior empty.  The scratch vectors spaces_intersects,
\* new_empty_spaces and orientations are cleared before every use and are
\* locals of the operators below.
InnerBin_new(spec) ==
    [used_volume |-> 0,
     empty_space_list |-> <<from_placement(Point(0, 0, 0), spec)>>]

InnerBin_reset(spec) ==
    [used_volume |-> 0,
     empty_space_list |-> <<from_placement(Point(0, 0, 0), spec)>>]

\* the greatest element of a set of distances, -1 for the empty set
SetMax(S) == IF S = {} THEN -1 ELSE CHOOSE m \in S : \A n \in S : n <= m

\* try_place_cuboid, its inner loop on one empty space: the greatest dist of
\* the orientations that fit ems, -1 when none fits
farthest_dist(ems, orients, corner) ==
    SetMax({distance2_from(corner, from_placement(ems.bottom_left, orients[k]).upper_right) :
               k \in {j \in 1..Len(orients) : can_fit_in(orients[j], ems)}})

\* try_place_cuboid, its outer loop from the i-th empty space on, top being
\* farthest_dist of that space: the 0-based index of the chosen empty space,
\* -1 for None
RECURSIVE try_place_scan(_, _, _, _, _, _)
try_place_step(list, orients, corner, i, max_dist, best_ems, top) ==
    IF top > max_dist
    THEN try_place_scan(list, orients, corner, i + 1, top, i - 1)
    ELSE try_place_scan(list, orients, corner, i + 1, max_dist, best_ems)

try_place_scan(list, orients, corner, i, max_dist, best_ems) ==
    IF i > Len(list) THEN best_ems
    ELSE try_place_step(list, orients, corner, i, max_dist, best_ems,
                        farthest_dist(list[i], orients, corner))

try_place_cuboid(bin, spec, cuboid, tp) ==
    try_place_scan(bin.empty_space_list, rotate_cuboid(tp, cuboid),
                   Point(spec.width, spec.depth, spec.height), 1, -1, -1)

\* Vec::swap_remove(i), i 0-based
swap_remove(v, i) ==
    [k \in 1..(Len(v) - 1) |-> IF k = i + 1 THEN v[Len(v)] ELSE v[k]]

\* a loop that removes none of the empty spaces that intersect the placement
swap_remove_none(v, idxs) == v

\* the loop "for &i in spaces_intersects.iter().rev() { swap_remove(i) }"
RECURSIVE swap_remove_all(_, _)
swap_remove_all(v, idxs) ==
    IF idxs = <<>> THEN v
    ELSE swap_remove_all(swap_remove(v, idxs[Len(idxs)]), SubSeq(idxs, 1, Len(idxs) - 1))

RECURSIVE concat_all(_)
concat_all(ss) ==
    IF ss = <<>> THEN <<>> ELSE Head(ss) \o concat_all(Tail(ss))

\* the ascending 0-based indices of the elements of v that satisfy Test
RECURSIVE indices_where(_, _, _)
indices_where(v, Test(_), i) ==
    IF i > Len(v) THEN <<>>
    ELSE (IF Test(v[i]) THEN <<i - 1>> ELSE <<>>) \o indices_where(v, Test, i + 1)

\* a last loop that pushes every new empty space, contained or not
push_all(list, new_empty_spaces) == list \o new_empty_spaces

\* allocate_space, its last loop: the new empty spaces that no other new
\* empty space contains are pushed onto the list
push_not_overlapped(list, new_empty_spaces) ==
    LET survivors == indices_where(
            [i \in 1..Len(new_empty_spaces) |-> i],
            LAMBDA i : ~\E j \in 1..Len(new_empty_spaces) :
                          i # j /\ contains(new_empty_spaces[j], new_empty_spaces[i]),
            1)
    IN  list \o [n \in 1..Len(survivors) |-> new_empty_spaces[survivors[n] + 1]]

\* allocate_space once spaces_intersects is filled
allocate_intersected(bin, space, min_dimension, min_volume, spaces_intersects) ==
    LET keep(s) == new_space_filter(s, min_dimension, min_volume)
        split(ems) == difference_process(ems, union(ems, space), min_dimension, min_volume)
    IN  [used_volume |-> bin.used_volume + space_volume(space),
         empty_space_list |->
             push_not_overlapped(
                 SelectSeq(swap_remove_all(bin.empty_space_list, spaces_intersects), keep),
                 concat_all([n \in 1..Len(spaces_intersects) |->
                                split(bin.empty_space_list[spaces_intersects[n] + 1])]))]

\* allocate_space that assigns the volume of the space to used_volume
\* instead of adding it
allocate_space_assigning(bin, space, min_dimension, min_volume) ==
    [allocate_intersected(bin, space, min_dimension, min_volume,
                          indices_where(bin.empty_space_list,
                                        LAMBDA ems : intersects(ems, space), 1))
        EXCEPT !.used_volume = space_volume(space)]

allocate_space(bin, space, min_dimension, min_volume) ==
    allocate_intersected(bin, space, min_dimension, min_volume,
                         indices_where(bin.empty_space_list,
                                       LAMBDA ems : intersects(ems, space), 1))


\* open_new_bin that takes a buffered bin as the last decode left it
open_new_bin_as_left(bl, spec) ==
    LET buffered == Len(bl.bins) - bl.size
    IN  [bins |-> IF buffered = 0
                  THEN Append(bl.bins, InnerBin_new(spec))
                  ELSE bl.bins,
         size |-> bl.size + 1]

\* BinList::open_new_bin on (bins, size): the new (bins, size); the index it
\* returns is the old size
open_new_bin(bl, spec) ==
    LET buffered == Len(bl.bins) - bl.size
    IN  [bins |-> IF buffered = 0
                  THEN Append(bl.bins, InnerBin_new(spec))
                  ELSE [bl.bins EXCEPT ![bl.size + 1] = InnerBin_reset(spec)],
         size |-> bl.size + 1]

\* BinList::opened
opened(bl) == SubSeq(bl.bins, 1, bl.size)

\* the orientations place_box retains: those that fit the container
fitting_orientations(bxs, tp, box_idx, container) ==
    LET fits(c) == can_fit_in(c, container)
    IN  SelectSeq(rotate_cuboid(tp, bxs[box_idx + 1].cuboid), fits)

\* ceil(gene * len) for the gene numerator over GeneDen
decoded_gene_of(gene, len) == (gene * len + GeneDen - 1) \div GeneDen

\* place_box that anchors the box at the far end of the container's x extent
place_box_far_corner(bxs, tp, box_idx, chrom, container) ==
    LET gene == chrom[Len(chrom) \div 2 + box_idx + 1]
        orientations == fitting_orientations(bxs, tp, box_idx, container)
        decoded_gene == decoded_gene_of(gene, Len(orientations))
        orientation == orientations[(Max2(decoded_gene, 1) - 1) + 1]
    IN  from_placement(Point(container.upper_right.x - orientation.width,
                             container.bottom_left.y, container.bottom_left.z),
                       orientation)

\* place_box that reads the gene of the item from the first half of the
\* chromosome, the sequencing keys
place_box_bps_gene(bxs, tp, box_idx, chrom, container) ==
    LET gene == chrom[box_idx + 1]
        orientations == fitting_orientations(bxs, tp, box_idx, container)
        decoded_gene == decoded_gene_of(gene, Len(orientations))
        orientation == orientations[(Max2(decoded_gene, 1) - 1) + 1]
    IN  from_placement(container.bottom_left, orientation)

\* place_box; it indexes out of range (a panic) when no orientation fits
place_box(bxs, tp, box_idx, chrom, container) ==
    LET gene == chrom[Len(chrom) \div 2 + box_idx + 1]
        orientations == fitting_orientations(bxs, tp, box_idx, container)
        decoded_gene == decoded_gene_of(gene, Len(orientations))
        orientation == orientations[(Max2(decoded_gene, 1) - 1) + 1]
    IN  from_placement(container.bottom_left, orientation)

\* min_dimension_and_volume over a slice of bps
RECURSIVE min_dimension_and_volume(_, _)
min_dimension_and_volume(bxs, remain_bps) ==
    IF remain_bps = <<>> THEN <<I32Max, I32Max>>
    ELSE LET rest == min_dimension_and_volume(bxs, Tail(remain_bps))
             b == bxs[Head(remain_bps)[1] + 1]
         IN  <<Min2(rest[1], b.smallest_dimension), Min2(rest[2], b.volume)>>

\* the orders in which a sort by key may leave the 0-based indices of rest:
\* ascending keys, equal keys in any order
RECURSIVE sorted_orders(_, _)
sorted_orders(chrom, rest) ==
    IF rest = {} THEN {<<>>}
    ELSE LET least == {i \in rest : \A j \in rest : chrom[i + 1] <= chrom[j + 1]}
         IN  UNION {{<<i>> \o t : t \in sorted_orders(chrom, rest \ {i})} : i \in least}

\* calculate_bps: (index, key) pairs sorted by key with sort_unstable_by, which
\* may leave equal keys in any order: every sorted arrangement is an outcome
sorted_bps(chrom) ==
    LET n == Len(chrom) \div 2
    IN  {[i \in 1..n |-> <<q[i], chrom[q[i] + 1]>>] :
            q \in sorted_orders(chrom, 0..(n - 1))}

\* a search of the opened bins from the last one down
RECURSIVE first_fit_backwards(_, _, _, _, _)
first_fit_backwards(bl, spec, cuboid, tp, i) ==
    IF i >= bl.size THEN <<-1, -1>>
    ELSE LET e == try_place_cuboid(bl.bins[bl.size - i], spec, cuboid, tp)
         IN  IF e # -1 THEN <<bl.size - i - 1, e>>
             ELSE first_fit_backwards(bl, spec, cuboid, tp, i + 1)

\* the first opened bin whose try_place_cuboid returns a space: <<bin, ems>>,
\* both 0-based, or <<-1, -1>>
RECURSIVE first_fit(_, _, _, _, _)
first_fit(bl, spec, cuboid, tp, i) ==
    IF i >= bl.size THEN <<-1, -1>>
    ELSE LET e == try_place_cuboid(bl.bins[i + 1], spec, cuboid, tp)
         IN  IF e # -1 THEN <<i, e>> ELSE first_fit(bl, spec, cuboid, tp, i + 1)

\* InnerPlacement::new that stores bin_no in both index fields
InnerPlacement_bin_twice(space, bin_no, box_idx) ==
    [space |-> space, bin_no |-> bin_no, box_idx |-> bin_no]

InnerPlacement(space, bin_no, box_idx) ==
    [space |-> space, bin_no |-> bin_no, box_idx |-> box_idx]

\* one iteration of the loop of place_boxes, on the decoder state
\* d = [bins, size, placements, min_dimension, min_volume, panic]
\* The iteration is a chain of steps, each handed what the steps before it
\* computed: the bin list bl (bins, size) after open_new_bin, fit_bin,
\* fit_space, placement and mdv = (min_dimension, min_volume).

\* the end of an iteration: allocate_space in the bin, the placement pushed
place_allocate(d, bl, fit_bin, box_idx, placement, mdv) ==
    [bins |-> [bl.bins EXCEPT ![fit_bin + 1] =
                  allocate_space(@, placement, mdv[1], mdv[2])],
     size |-> bl.size,
     placements |-> Append(d.placements, InnerPlacement(placement, fit_bin, box_idx)),
     min_dimension |-> mdv[1],
     min_volume |-> mdv[2],
     panic |-> FALSE]

\* an iteration from place_box on that recomputes the thresholds only when
\* the item is strictly below one of them
place_in_space_strict(d, bxs, tp, chrom, the_bps, bps_idx, bl, fit_bin, fit_space) ==
    LET box_idx == the_bps[bps_idx + 1][1]
        recompute == \/ bxs[box_idx + 1].smallest_dimension < d.min_dimension
                     \/ bxs[box_idx + 1].volume < d.min_volume
    IN  IF fitting_orientations(bxs, tp, box_idx, fit_space) = <<>>
        THEN [d EXCEPT !.bins = bl.bins, !.size = bl.size, !.panic = TRUE]
        ELSE place_allocate(d, bl, fit_bin, box_idx,
                            place_box(bxs, tp, box_idx, chrom, fit_space),
                            IF recompute
                            THEN min_dimension_and_volume(
                                     bxs, SubSeq(the_bps, bps_idx + 2, Len(the_bps)))
                            ELSE <<d.min_dimension, d.min_volume>>)

\* an iteration from place_box on; place_box panics when no orientation fits
place_in_space(d, bxs, tp, chrom, the_bps, bps_idx, bl, fit_bin, fit_space) ==
    LET box_idx == the_bps[bps_idx + 1][1]
        recompute == \/ bxs[box_idx + 1].smallest_dimension <= d.min_dimension
                     \/ bxs[box_idx + 1].volume <= d.min_volume
    IN  IF fitting_orientations(bxs, tp, box_idx, fit_space) = <<>>
        THEN [d EXCEPT !.bins = bl.bins, !.size = bl.size, !.panic = TRUE]
        ELSE place_allocate(d, bl, fit_bin, box_idx,
                            place_box(bxs, tp, box_idx, chrom, fit_space),
                            IF recompute
                            THEN min_dimension_and_volume(
                                     bxs, SubSeq(the_bps, bps_idx + 2, Len(the_bps)))
                            ELSE <<d.min_dimension, d.min_volume>>)

\* an iteration from the unwrap of fit_bin and fit_space on, fit_space being
\* the empty space of index ems_idx of the bin fit_bin
place_in_bin(d, bxs, tp, chrom, the_bps, bps_idx, bl, fit_bin, ems_idx) ==
    place_in_space(d, bxs, tp, chrom, the_bps, bps_idx, bl, fit_bin,
                   bl.bins[fit_bin + 1].empty_space_list[ems_idx + 1])

\* an iteration after its search of the opened bins, which returned found
place_found(d, bxs, spec, tp, chrom, the_bps, bps_idx, found) ==
    place_in_bin(d, bxs, tp, chrom, the_bps, bps_idx,
                 IF found[1] = -1
                 THEN open_new_bin([bins |-> d.bins, size |-> d.size], spec)
                 ELSE [bins |-> d.bins, size |-> d.size],
                 IF found[1] = -1 THEN d.size ELSE found[1],
                 IF found[1] = -1 THEN 0 ELSE found[2])

place_iteration(d, bxs, spec, tp, chrom, the_bps, bps_idx) ==
    place_found(d, bxs, spec, tp, chrom, the_bps, bps_idx,
                first_fit([bins |-> d.bins, size |-> d.size], spec,
                          bxs[the_bps[bps_idx + 1][1] + 1].cuboid, tp, 0))

\* the minimum of a non-empty set of integers
SetMin(S) == CHOOSE m \in S : \A n \in S : m <= n

\* an InnerSolution that counts one bin too few
InnerSolution_short(d) ==
    [num_bins |-> d.size - 1,
     least_load |-> SetMin({d.bins[i].used_volume : i \in 1..d.size}),
     placements |-> d.placements]

\* the InnerSolution place_boxes returns once its loop is over
InnerSolution(d) ==
    [num_bins |-> d.size,
     least_load |-> SetMin({d.bins[i].used_volume : i \in 1..d.size}),
     placements |-> d.placements]


(***************************************************************************)
(* The problems and chromosomes the decoder is run on.                     *)
(***************************************************************************)
\* the largest number of items of a problem
MaxItems == 3

RotationTypes == {"ThreeDimension", "TwoDimension"}

BinSpecs == {Cuboid(2, 2, 2), Cuboid(3, 2, 1), Cuboid(1, 2, 3)}

ItemKinds == <<Cuboid(1, 1, 1), Cuboid(2, 1, 1), Cuboid(1, 1, 2), Cuboid(1, 2, 2),
               Cuboid(2, 2, 2)>>

\* the core's input assumption: the item fits the bin in some admissible
\* orientation
FitsBin(c, spec, tp) ==
    \E k \in 1..Len(rotate_cuboid(tp, c)) :
        can_fit_in(rotate_cuboid(tp, c)[k], from_placement(Point(0, 0, 0), spec))

\* item lists of 1..MaxItems items, kinds in non-decreasing order of their
\* place in ItemKinds (the chromosome decides the packing order)
ItemLists ==
    UNION {{[i \in 1..n |-> ItemKinds[f[i]]] :
               f \in {g \in [1..n -> 1..Len(ItemKinds)] :
                         \A i \in 1..(n - 1) : g[i] <= g[i + 1]}} :
           n \in 1..MaxItems}

Problems ==
    {p \in [bin : BinSpecs, items : ItemLists, rotation : RotationTypes] :
        \A i \in 1..Len(p.items) : FitsBin(p.items[i], p.bin, p.rotation)}

\* the chromosomes RandGenerator::new(2 * n) generates
Chromosomes(n) == [1..(2 * n) -> Genes]

(***************************************************************************)
(* State.                                                                  *)
(***************************************************************************)
VARIABLES
    \* Placer: the problem
    boxes, bin_spec, rotation_type,
    \* Placer.bins (BinList.bins, BinList.size) and Placer.bps
    bins, size, bps,
    \* place_boxes: its argument, its locals and its position
    chromosome, bps_idx, placements, min_dimension, min_volume, pc,
    \* the InnerSolution the last place_boxes returned
    solution,
    \* the Solver: the build ("serial" or "rayon"), Solver.params,
    \* Solver.population, Solver.population1
    variant, params, population, population1,
    \* solve: its locals and its position
    generation, generations_no_improvement, prev_fitness, gpc,
    \* init_first_generation / evolve_new_generation: the decoders made by
    \* decoder_factory (each one's BinList.bins, its size being 0 between two
    \* decodes), the iterations done in the current loop, the vector the
    \* parallel iterator collects into, the population indices
    \* pickup_parents_for_crossover returned last and the offspring crossover
    \* returned last
    decoders, iter, slots, parents, offspring,
    \* the tasks of the parallel iterator that are in their map_op, each with
    \* the index of the decoder (and RNG) map_init made for its job
    running,
    \* what solve returned
    result,
    \* the vector the last call of orientations_for returned or the last call
    \* of rotate_cuboid filled
    orientations,
    \* two spaces, whether the last call of intersects on them returned true,
    \* and the vector the last call of difference_process on them filled
    space_a, space_b, intersected, new_spaces,
    \* the PackSolution do_pack built last
    packed,
    \* the input form: InputProcess.problem_spec and InputProcess.file_name,
    \* and the Request::Problem the App sent to the pack worker
    problem_spec, file_name, request

placer_vars == <<bins, size, bps, chromosome, bps_idx, placements,
                 min_dimension, min_volume, pc, solution>>

problem_vars == <<boxes, bin_spec, rotation_type>>

ga_vars == <<variant, params, population, population1, generation,
             generations_no_improvement, prev_fitness, gpc, decoders, iter,
             slots, parents, offspring, running, result>>

geom_vars == <<orientations, space_a, space_b, intersected, new_spaces>>

ui_vars == <<problem_spec, file_name, request>>

vars == <<problem_vars, placer_vars, ga_vars, geom_vars, packed, ui_vars>>

\* no pair of spaces
NoSpaces ==
    /\ space_a = Space(Point(0, 0, 0), Point(0, 0, 0))
    /\ space_b = Space(Point(0, 0, 0), Point(0, 0, 0))

\* no geometry call made on its own and no PackSolution built
NoGeomCall ==
    /\ orientations = <<>>
    /\ intersected = FALSE
    /\ new_spaces = <<>>
    /\ packed = <<>>

GeomIdle == NoSpaces /\ NoGeomCall

NoSolution == [num_bins |-> 0, least_load |-> 0, placements |-> <<>>]

NoParams == [population_size |-> 0, num_elites |-> 0, num_mutants |-> 0,
             inherit_elite_probability |-> 0, max_generations |-> 0,
             max_generations_no_improvement |-> 0]

\* Params::default(); the f64 fields are held in hundredths
ParamsDefault ==
    [population_factor |-> 30,
     elites_percentage |-> 10,
     mutants_percentage |-> 15,
     inherit_elite_probability |-> 70,
     max_generations |-> 200,
     max_generations_no_improvement |-> 5,
     box_rotation_type |-> "ThreeDimension"]

\* InputProcess::create, and an App that has sent no request
InputProcess_create ==
    /\ problem_spec = [params |-> ParamsDefault, bin |-> Cuboid(0, 0, 0), items |-> <<>>]
    /\ file_name = ""
    /\ request = <<>>

\* Decoder::new on a problem: Placer::new, BinList::new
PlacerInit(problems) ==
    /\ \E p \in problems :
          /\ boxes = [i \in 1..Len(p.items) |-> InnerBox(p.items[i])]
          /\ bin_spec = p.bin
          /\ rotation_type = p.rotation
    /\ bins = <<>>
    /\ size = 0
    /\ bps = <<>>
    /\ chromosome = <<>>
    /\ bps_idx = 0
    /\ placements = <<>>
    /\ min_dimension = I32Max
    /\ min_volume = I32Max
    /\ pc = "idle"
    /\ solution = NoSolution
    /\ GeomIdle

\* no Solver
NoSolver ==
    /\ variant = "serial"
    /\ params = NoParams
    /\ population = <<>>
    /\ population1 = <<>>
    /\ generation = 0
    /\ generations_no_improvement = 0
    /\ prev_fitness = 0
    /\ gpc = "none"
    /\ decoders = <<>>
    /\ iter = 0
    /\ slots = <<>>
    /\ parents = <<>>
    /\ offspring = <<>>
    /\ running = {}
    /\ result = NoSolution

\* place_boxes up to its loop: the locals and calculate_bps
StartDecodeOf(chromosomes) ==
    /\ pc = "idle"
    /\ \E c \in chromosomes :
          /\ chromosome' = c
          /\ \E s \in sorted_bps(c) : bps' = s
    /\ bps_idx' = 0
    /\ placements' = <<>>
    /\ min_dimension' = I32Max
    /\ min_volume' = I32Max
    /\ pc' = "placing"
    /\ UNCHANGED <<problem_vars, bins, size, solution, ga_vars, ui_vars, geom_vars, packed>>

StartDecode == StartDecodeOf(Chromosomes(Len(boxes)))

\* one iteration of the loop of place_boxes
PlaceNext ==
    /\ pc = "placing"
    /\ bps_idx < Len(bps)
    /\ \E d \in {place_iteration(
                    [bins |-> bins, size |-> size, placements |-> placements,
                     min_dimension |-> min_dimension, min_volume |-> min_volume,
                     panic |-> FALSE],
                    boxes, bin_spec, rotation_type, chromosome, bps, bps_idx)} :
           /\ bins' = d.bins
           /\ size' = d.size
           /\ placements' = d.placements
           /\ min_dimension' = d.min_dimension
           /\ min_volume' = d.min_volume
           /\ pc' = IF d.panic THEN "panic" ELSE "placing"
    /\ bps_idx' = bps_idx + 1
    /\ UNCHANGED <<problem_vars, bps, chromosome, solution, ga_vars, ui_vars, geom_vars, packed>>

\* the end of place_boxes: the solution is returned
FinishDecode ==
    /\ pc = "placing"
    /\ bps_idx = Len(bps)
    /\ solution' = InnerSolution([bins |-> bins, size |-> size,
                                  placements |-> placements])
    /\ pc' = "returned"
    /\ UNCHANGED <<problem_vars, bins, size, bps, chromosome, bps_idx,
                   placements, min_dimension, min_volume, ga_vars, ui_vars, geom_vars, packed>>

\* src/src/lib.rs: struct Placement
Placement(space, item_idx) == [space |-> space, item_idx |-> item_idx]

\* do_pack!: the loop that pushes the placements from the k-th on into the
\* vector of their bin; an index out of range is a panic
RECURSIVE push_placements(_, _, _)
push_placements(the_bins, ps, k) ==
    IF k > Len(ps) THEN [bins |-> the_bins, panic |-> FALSE]
    ELSE IF ps[k].bin_no >= Len(the_bins) THEN [bins |-> the_bins, panic |-> TRUE]
    ELSE push_placements(
             [the_bins EXCEPT ![ps[k].bin_no + 1] =
                 Append(@, Placement(ps[k].space, ps[k].box_idx))],
             ps, k + 1)

\* do_pack! that walks the placements from the last to the first
do_pack_backwards(sol) ==
    push_placements([b \in 1..sol.num_bins |-> <<>>],
                    [k \in 1..Len(sol.placements) |->
                        sol.placements[Len(sol.placements) + 1 - k]], 1)

\* do_pack!: the PackSolution built from the InnerSolution solve returned
do_pack(sol) ==
    push_placements([b \in 1..sol.num_bins |-> <<>>], sol.placements, 1)

\* do_pack! after solve: solve returns the InnerSolution of a decoded
\* chromosome, here the one place_boxes has just returned
DoPack ==
    /\ pc = "returned"
    /\ \E r \in {do_pack(solution)} :
          /\ packed' = r.bins
          /\ pc' = IF r.panic THEN "panic" ELSE "packed"
    /\ UNCHANGED <<problem_vars, bins, size, bps, chromosome, bps_idx,
                   placements, min_dimension, min_volume, solution, ga_vars, ui_vars,
                   geom_vars>>

Init == PlacerInit(Problems) /\ NoSolver /\ InputProcess_create

Next == StartDecode \/ PlaceNext \/ FinishDecode \/ DoPack

Spec == Init /\ [][Next]_vars


(***************************************************************************)
(* src/src/ga.rs: the Solver, over the Decoder of src/src/placer.rs.       *)
(***************************************************************************)
\* a probability is a multiple of 1 / ProbDen
ProbDen == 2
\* the largest population_size
MaxPop == 3
\* the largest max_generations
MaxGen == 3
\* the largest max_generations_no_improvement
MaxNoImp == 2
\* the largest number of decoders map_init makes for one parallel iterator
MaxDecoders == 2

\* the problem the Solver is run on: the order and the orientation of its
\* first item decide whether one bin or two are used
GAProblem == [bin |-> Cuboid(3, 2, 1), items |-> <<Cuboid(2, 1, 1), Cuboid(2, 2, 1)>>,
              rotation |-> "ThreeDimension"]

\* what generate_individual returns in a Solver run: the first item first in
\* its first orientation (two bins), or the second item first (one bin);
\* crossover mixes the two
GAChromosomes ==
    {<<0, GeneDen \div 2, 0, 0>>, <<GeneDen - 1, GeneDen \div 2, GeneDen - 1, 0>>}

\* ga::Params with num_elites + num_mutants <= population_size
GAParams ==
    {q \in [population_size : 1..MaxPop, num_elites : 0..MaxPop,
            num_mutants : 0..MaxPop, inherit_elite_probability : {0, ProbDen},
            max_generations : {-1, 0, MaxGen},
            max_generations_no_improvement : {0, 1, MaxNoImp}] :
        q.num_elites + q.num_mutants <= q.population_size}

InnerChromosome(chrom, sol, fit) ==
    [chromosome |-> chrom, solution |-> sol, fitness |-> fit]

\* a slot of the collected vector that no task has written yet
NoEntry == InnerChromosome(<<>>, NoSolution, -1)

\* a fitness whose first term is the least load
fitness_of_load_first(sol, bin_volume) == sol.least_load * bin_volume + sol.num_bins

\* Decoder::fitness_of: num_bins + least_load / bin_volume, an f64.  The
\* model holds the fitness times bin_volume, an integer: the order of two
\* fitnesses of one problem is the order of these integers.
fitness_of(sol, bin_volume) == sol.num_bins * bin_volume + sol.least_load

\* the loop of place_boxes from iteration k on
RECURSIVE place_loop(_, _, _, _)
place_loop(d, chrom, the_bps, k) ==
    IF k >= Len(the_bps) \/ d.panic THEN d
    ELSE place_loop(place_iteration(d, boxes, bin_spec, rotation_type, chrom, the_bps, k),
                    chrom, the_bps, k + 1)

\* Solver::decode_chromosome with a decoder whose BinList.bins is buffer:
\* place_boxes, fitness_of, reset.  Every outcome: the InnerChromosome and the
\* decoder's BinList.bins afterwards.
decoded(chrom, sol, bin_volume, buffer) ==
    [entry |-> InnerChromosome(chrom, sol, fitness_of(sol, bin_volume)),
     buffer |-> buffer]

decode_chromosome(buffer, chrom) ==
    {decoded(chrom, InnerSolution(d), volume(bin_spec), d.bins) :
        d \in {place_loop([bins |-> buffer, size |-> 0, placements |-> <<>>,
                           min_dimension |-> I32Max, min_volume |-> I32Max,
                           panic |-> FALSE], chrom, s, 0) : s \in sorted_bps(chrom)}}

\* crossover with the two branches exchanged
crossover_exchanged(elite, non_elite, draws, inherit_elite_probability) ==
    [i \in 1..Len(elite) |->
        IF draws[i] <= inherit_elite_probability THEN non_elite[i] ELSE elite[i]]

\* crossover that yields one gene more than the elite has
crossover_longer(elite, non_elite, draws, inherit_elite_probability) ==
    [i \in 1..(Len(elite) + 1) |->
        IF i > Len(elite) THEN elite[1]
        ELSE IF draws[i] <= inherit_elite_probability THEN elite[i] ELSE non_elite[i]]

\* Solver::crossover: draws[i] is the numerator of the i-th p drawn
crossover(elite, non_elite, draws, inherit_elite_probability) ==
    [i \in 1..Len(elite) |->
        IF draws[i] <= inherit_elite_probability THEN elite[i] ELSE non_elite[i]]

\* the values rng.gen() takes for p
Draws(n) == [1..n -> 0..(ProbDen - 1)]

\* a choice of parents that draws both from the whole population
pickup_parents_anywhere(q) ==
    {<<e, r>> : e \in 0..(q.population_size - 1), r \in 0..(q.population_size - 1)}

\* Solver::pickup_parents_for_crossover: the pairs of population indices it
\* may return; gen_range panics on an empty range
pickup_parents_for_crossover(q) ==
    LET elite_size == q.num_elites
        non_elite_size == q.population_size - elite_size
    IN  {<<e, elite_size + r>> : e \in 0..(elite_size - 1), r \in 0..(non_elite_size - 1)}

\* Solver::sort_population: sort_unstable_by on the fitness, which may leave
\* equal fitnesses in any order
RECURSIVE sorted_by_fitness(_, _)
sorted_by_fitness(pop, rest) ==
    IF rest = {} THEN {<<>>}
    ELSE LET least == {i \in rest : \A j \in rest : pop[i].fitness <= pop[j].fitness}
         IN  UNION {{<<pop[i]>> \o t : t \in sorted_by_fitness(pop, rest \ {i})} :
                    i \in least}

\* the population left as it was pushed
sort_population_skipped(pop) == {pop}

sort_population(pop) == sorted_by_fitness(pop, 1..Len(pop))

\* the last num_elites entries in place of the first
elites_from_tail(pop, num_elites) == SubSeq(pop, Len(pop) - num_elites + 1, Len(pop))

\* a copy of the elites that leaves the last of them out
elites_one_less(pop, num_elites) == SubSeq(pop, 1, num_elites - 1)

\* the slice population[0..num_elites] evolve_new_generation copies
elites(pop, num_elites) == SubSeq(pop, 1, num_elites)

\* Solver::new, for one of the two builds
SolverInit ==
    /\ variant \in {"serial", "rayon"}
    /\ params \in GAParams
    /\ population = <<>>
    /\ population1 = <<>>
    /\ generation = 0
    /\ generations_no_improvement = 0
    /\ prev_fitness = 0
    /\ gpc = "new"
    /\ decoders = <<>>
    /\ iter = 0
    /\ slots = <<>>
    /\ parents = <<>>
    /\ offspring = <<>>
    /\ running = {}
    /\ result = NoSolution

\* num_offsprings that does not subtract the mutants
num_offsprings_with_mutants == params.population_size - params.num_elites

num_offsprings == params.population_size - params.num_elites - params.num_mutants

\* solve up to init_first_generation, and the start of that
SolveBegin ==
    /\ gpc = "new"
    /\ generation' = 0
    /\ generations_no_improvement' = 0
    /\ gpc' = "init"
    /\ iter' = 0
    /\ decoders' = IF variant = "serial" THEN << <<>> >> ELSE <<>>
    /\ slots' = IF variant = "serial" THEN <<>>
                ELSE [i \in 1..params.population_size |-> NoEntry]
    /\ UNCHANGED <<problem_vars, placer_vars, geom_vars, packed, running, ui_vars,
                   variant, params, population,
                   population1, prev_fitness, parents, offspring, result>>

\* init_first_generation (serial): one individual generated, decoded, pushed
SerialInitIndividual ==
    /\ gpc = "init" /\ variant = "serial"
    /\ iter < params.population_size
    /\ \E c \in GAChromosomes :
          \E o \in decode_chromosome(decoders[1], c) :
              /\ population' = Append(population, o.entry)
              /\ decoders' = <<o.buffer>>
    /\ iter' = iter + 1
    /\ UNCHANGED <<problem_vars, placer_vars, geom_vars, packed, running, ui_vars,
                   variant, params, population1,
                   generation, generations_no_improvement, prev_fitness, gpc,
                   slots, parents, offspring, result>>

\* init_first_generation (serial): the sort that ends it
SerialInitSort ==
    /\ gpc = "init" /\ variant = "serial"
    /\ iter = params.population_size
    /\ population' \in sort_population(population)
    /\ decoders' = <<>>
    /\ iter' = 0
    /\ gpc' = "loop"
    /\ UNCHANGED <<problem_vars, placer_vars, geom_vars, packed, running, ui_vars,
                   variant, params, population1,
                   generation, generations_no_improvement, prev_fitness,
                   slots, parents, offspring, result>>

\* a task of a parallel iterator takes the decoder map_init made for its
\* job: one made before, or a new one
TaskDecoders == 1..Min2(Len(decoders) + 1, MaxDecoders)

DecoderBuffer(j) == IF j <= Len(decoders) THEN decoders[j] ELSE <<>>

WithDecoder(j, buffer) ==
    IF j <= Len(decoders) THEN [decoders EXCEPT ![j] = buffer]
    ELSE Append(decoders, buffer)

\* init_first_generation (rayon): the task of one index
RayonInitTask ==
    /\ gpc = "init" /\ variant = "rayon"
    /\ \E i \in 1..Len(slots) :
          /\ slots[i] = NoEntry
          /\ \E j \in TaskDecoders, c \in GAChromosomes :
                \E o \in decode_chromosome(DecoderBuffer(j), c) :
                    /\ slots' = [slots EXCEPT ![i] = o.entry]
                    /\ decoders' = WithDecoder(j, o.buffer)
    /\ UNCHANGED <<problem_vars, placer_vars, geom_vars, packed, running, ui_vars,
                   variant, params, population,
                   population1, generation, generations_no_improvement,
                   prev_fitness, gpc, iter, parents, offspring, result>>

\* init_first_generation (rayon): the collected vector becomes the
\* population, which is sorted
RayonInitSort ==
    /\ gpc = "init" /\ variant = "rayon"
    /\ \A i \in 1..Len(slots) : slots[i] # NoEntry
    /\ population' \in sort_population(slots)
    /\ slots' = <<>>
    /\ decoders' = <<>>
    /\ gpc' = "loop"
    /\ UNCHANGED <<problem_vars, placer_vars, geom_vars, packed, running, ui_vars,
                   variant, params, population1,
                   generation, generations_no_improvement, prev_fitness, iter,
                   parents, offspring, result>>

\* a loop that goes on while either limit is not reached
LoopCondition_either ==
    \/ generation < params.max_generations
    \/ generations_no_improvement < params.max_generations_no_improvement

\* the condition of the while loop of solve
LoopCondition ==
    /\ generation < params.max_generations
    /\ generations_no_improvement < params.max_generations_no_improvement

\* a solve that returns the solution of the last entry of the population
SolveReturn_last ==
    /\ gpc = "loop"
    /\ ~LoopCondition
    /\ IF population = <<>>
       THEN gpc' = "panic" /\ result' = result
       ELSE gpc' = "returned" /\ result' = population[Len(population)].solution
    /\ UNCHANGED <<problem_vars, placer_vars, geom_vars, packed, running, ui_vars,
                   variant, params, population,
                   population1, generation, generations_no_improvement,
                   prev_fitness, decoders, iter, slots, parents,
                   offspring>>

\* solve: the loop is left and population[0].solution returned
SolveReturn ==
    /\ gpc = "loop"
    /\ ~LoopCondition
    /\ IF population = <<>>
       THEN gpc' = "panic" /\ result' = result
       ELSE gpc' = "returned" /\ result' = population[1].solution
    /\ UNCHANGED <<problem_vars, placer_vars, geom_vars, packed, running, ui_vars,
                   variant, params, population,
                   population1, generation, generations_no_improvement,
                   prev_fitness, decoders, iter, slots, parents,
                   offspring>>

\* the loop body of solve up to, in evolve_new_generation (serial), the copy
\* of the elites
SerialBegin ==
    /\ gpc = "loop" /\ variant = "serial"
    /\ LoopCondition
    /\ prev_fitness' = population[1].fitness
    /\ decoders' = << <<>> >>
    /\ population1' = population1 \o elites(population, params.num_elites)
    /\ iter' = 0
    /\ parents' = <<>>
    /\ offspring' = <<>>
    /\ gpc' = "evolve"
    /\ UNCHANGED <<problem_vars, placer_vars, geom_vars, packed, running, ui_vars,
                   variant, params, population,
                   generation, generations_no_improvement, slots, result>>

\* evolve_new_generation (serial): one mutant
SerialMutant ==
    /\ gpc = "evolve" /\ variant = "serial"
    /\ iter < params.num_mutants
    /\ \E c \in GAChromosomes :
          \E o \in decode_chromosome(decoders[1], c) :
              /\ population1' = Append(population1, o.entry)
              /\ decoders' = <<o.buffer>>
    /\ iter' = iter + 1
    /\ UNCHANGED <<problem_vars, placer_vars, geom_vars, packed, running, ui_vars,
                   variant, params, population,
                   generation, generations_no_improvement, prev_fitness, gpc,
                   slots, parents, offspring, result>>

\* evolve_new_generation (serial): one offspring
SerialOffspring ==
    /\ gpc = "evolve" /\ variant = "serial"
    /\ iter >= params.num_mutants
    /\ iter < params.num_mutants + num_offsprings
    /\ IF pickup_parents_for_crossover(params) = {}
       THEN /\ gpc' = "panic"
            /\ UNCHANGED <<population1, decoders, parents, offspring, iter>>
       ELSE /\ \E pr \in pickup_parents_for_crossover(params),
                  draws \in Draws(2 * Len(boxes)) :
                  \E o \in decode_chromosome(
                               decoders[1],
                               crossover(population[pr[1] + 1].chromosome,
                                         population[pr[2] + 1].chromosome,
                                         draws, params.inherit_elite_probability)) :
                      /\ parents' = pr
                      /\ offspring' = o.entry.chromosome
                      /\ population1' = Append(population1, o.entry)
                      /\ decoders' = <<o.buffer>>
            /\ iter' = iter + 1
            /\ gpc' = gpc
    /\ UNCHANGED <<problem_vars, placer_vars, geom_vars, packed, running, ui_vars,
                   variant, params, population,
                   generation, generations_no_improvement, prev_fitness,
                   slots, result>>

\* counters that never advance
AfterGeneration_stalled(curr) ==
    /\ generations_no_improvement' =
           IF curr < prev_fitness THEN 0 ELSE generations_no_improvement
    /\ generation' = generation

\* the counters of solve after a generation whose incumbent fitness is curr
AfterGeneration(curr) ==
    /\ generations_no_improvement' =
           IF curr < prev_fitness THEN 0 ELSE generations_no_improvement + 1
    /\ generation' = generation + 1

\* evolve_new_generation (serial): the sort and the swap, and the rest of
\* the loop body of solve
SerialSortSwap ==
    /\ gpc = "evolve" /\ variant = "serial"
    /\ iter = params.num_mutants + num_offsprings
    /\ \E sorted \in sort_population(population1) :
          /\ population' = sorted
          /\ population1' = <<>>
          /\ AfterGeneration(sorted[1].fitness)
    /\ decoders' = <<>>
    /\ iter' = 0
    /\ gpc' = "loop"
    /\ UNCHANGED <<problem_vars, placer_vars, geom_vars, packed, running, ui_vars,
                   variant, params, prev_fitness,
                   slots, parents, offspring, result>>

\* the loop body of solve up to, in evolve_new_generation (rayon), the start
\* of the parallel iterator: population1 is swapped out and truncated
RayonBegin ==
    /\ gpc = "loop" /\ variant = "rayon"
    /\ LoopCondition
    /\ prev_fitness' = population[1].fitness
    /\ slots' = [i \in 1..(params.num_mutants + num_offsprings) |-> NoEntry]
    /\ population1' = <<>>
    /\ decoders' = <<>>
    /\ parents' = <<>>
    /\ offspring' = <<>>
    /\ gpc' = "evolve"
    /\ UNCHANGED <<problem_vars, placer_vars, geom_vars, packed, running, ui_vars,
                   variant, params, population,
                   generation, generations_no_improvement, iter, result>>

\* evolve_new_generation (rayon): the task of one index, a mutant or an
\* offspring
RayonTask ==
    /\ gpc = "evolve" /\ variant = "rayon"
    /\ \E i \in 1..Len(slots) :
          /\ slots[i] = NoEntry
          /\ IF i - 1 < params.num_mutants
             THEN /\ \E j \in TaskDecoders, c \in GAChromosomes :
                        \E o \in decode_chromosome(DecoderBuffer(j), c) :
                            /\ slots' = [slots EXCEPT ![i] = o.entry]
                            /\ decoders' = WithDecoder(j, o.buffer)
                  /\ UNCHANGED <<parents, offspring, gpc>>
             ELSE IF pickup_parents_for_crossover(params) = {}
             THEN /\ gpc' = "panic"
                  /\ UNCHANGED <<slots, decoders, parents, offspring>>
             ELSE /\ \E j \in TaskDecoders,
                        pr \in pickup_parents_for_crossover(params),
                        draws \in Draws(2 * Len(boxes)) :
                        \E o \in decode_chromosome(
                                     DecoderBuffer(j),
                                     crossover(population[pr[1] + 1].chromosome,
                                               population[pr[2] + 1].chromosome,
                                               draws, params.inherit_elite_probability)) :
                            /\ parents' = pr
                            /\ offspring' = o.entry.chromosome
                            /\ slots' = [slots EXCEPT ![i] = o.entry]
                            /\ decoders' = WithDecoder(j, o.buffer)
                  /\ gpc' = gpc
    /\ UNCHANGED <<problem_vars, placer_vars, geom_vars, packed, running, ui_vars,
                   variant, params, population,
                   population1, generation, generations_no_improvement,
                   prev_fitness, iter, result>>

\* evolve_new_generation (rayon): the collected vector is swapped back into
\* population1, the elites are pushed, the sort and the swap, and the rest
\* of the loop body of solve
RayonCollect ==
    /\ gpc = "evolve" /\ variant = "rayon"
    /\ \A i \in 1..Len(slots) : slots[i] # NoEntry
    /\ \E sorted \in sort_population(slots \o elites(population, params.num_elites)) :
          /\ population' = sorted
          /\ population1' = <<>>
          /\ AfterGeneration(sorted[1].fitness)
    /\ slots' = <<>>
    /\ decoders' = <<>>
    /\ gpc' = "loop"
    /\ UNCHANGED <<problem_vars, placer_vars, geom_vars, packed, running, ui_vars,
                   variant, params, prev_fitness,
                   iter, parents, offspring, result>>

\* the decoder is only used by the Solver
PlacerIdle ==
    /\ bins = <<>>
    /\ size = 0
    /\ bps = <<>>
    /\ chromosome = <<>>
    /\ bps_idx = 0
    /\ placements = <<>>
    /\ min_dimension = I32Max
    /\ min_volume = I32Max
    /\ pc = "idle"
    /\ solution = NoSolution

InitGA ==
    /\ boxes = [i \in 1..Len(GAProblem.items) |-> InnerBox(GAProblem.items[i])]
    /\ bin_spec = GAProblem.bin
    /\ rotation_type = GAProblem.rotation
    /\ PlacerIdle
    /\ GeomIdle
    /\ SolverInit
    /\ InputProcess_create

NextGA ==
    \/ SolveBegin
    \/ SerialInitIndividual \/ SerialInitSort
    \/ RayonInitTask \/ RayonInitSort
    \/ SerialBegin \/ SerialMutant \/ SerialOffspring \/ SerialSortSwap
    \/ RayonBegin \/ RayonTask \/ RayonCollect
    \/ SolveReturn

SpecGA == InitGA /\ [][NextGA]_vars

\* the steps of solve that decode no chromosome
SolveSteps ==
    \/ SolveBegin
    \/ SerialInitSort \/ RayonInitSort
    \/ SerialBegin \/ SerialSortSwap
    \/ RayonBegin \/ RayonCollect
    \/ SolveReturn

\* the steps of solve that decode a chromosome
DecodeSteps ==
    \/ SerialInitIndividual \/ RayonInitTask
    \/ SerialMutant \/ SerialOffspring \/ RayonTask

\* a decoding step is to be taken: the guards of the DecodeSteps, each of
\* which has an outcome for every chromosome
DecodePending ==
    \/ /\ gpc = "init" /\ variant = "serial"
       /\ iter < params.population_size
    \/ /\ gpc = "init" /\ variant = "rayon"
       /\ \E i \in 1..Len(slots) : slots[i] = NoEntry
    \/ /\ gpc = "evolve" /\ variant = "serial"
       /\ iter < params.num_mutants + num_offsprings
    \/ /\ gpc = "evolve" /\ variant = "rayon"
       /\ \E i \in 1..Len(slots) : slots[i] = NoEntry

\* solve runs on: the thread that called it is scheduled, and so are the
\* tasks of the parallel iterators.  Weak fairness of the SolveSteps and of
\* the DecodeSteps, the latter with ENABLED <<DecodeSteps>>_vars written out
\* as DecodePending.
SolveRunsOn ==
    /\ WF_vars(SolveSteps)
    /\ ([]<>(~DecodePending) \/ []<><<DecodeSteps>>_vars)

SpecGAFair == InitGA /\ [][NextGA]_vars /\ SolveRunsOn

(***************************************************************************)
(* The rayon build with the tasks of a parallel iterator interleaved: a    *)
(* task enters its map_op with the (decoder, RNG) pair map_init made for   *)
(* its job, and leaves it with its result written.                         *)
(***************************************************************************)
\* pairs that tasks in their map_op may share
free_decoders_shared == TaskDecoders

\* the (decoder, RNG) pairs a task may be handed: map_init makes one pair per
\* job and lends it, as &mut, to one map_op call at a time
free_decoders == {j \in TaskDecoders : \A t \in running : t.decoder # j}

\* the indices of the parallel iterator no task has taken
untaken ==
    {i \in 1..Len(slots) : slots[i] = NoEntry /\ \A t \in running : t.task # i}

\* a task of a parallel iterator enters its map_op; the pair of a new job
\* is made by the init closure
RayonTaskStart ==
    /\ gpc \in {"init", "evolve"} /\ variant = "rayon"
    /\ \E i \in untaken, j \in free_decoders :
          /\ running' = running \cup {[task |-> i, decoder |-> j]}
          /\ decoders' = WithDecoder(j, DecoderBuffer(j))
    /\ UNCHANGED <<problem_vars, placer_vars, geom_vars, packed, ui_vars, variant,
                   params,
                   population, population1, generation, generations_no_improvement,
                   prev_fitness, gpc, iter, slots, parents, offspring, result>>

\* init_first_generation (rayon): a task leaves its map_op
RayonInitTaskEnd ==
    /\ gpc = "init" /\ variant = "rayon"
    /\ \E t \in running, c \in GAChromosomes :
          \E o \in decode_chromosome(decoders[t.decoder], c) :
              /\ slots' = [slots EXCEPT ![t.task] = o.entry]
              /\ decoders' = [decoders EXCEPT ![t.decoder] = o.buffer]
              /\ running' = running \ {t}
    /\ UNCHANGED <<problem_vars, placer_vars, geom_vars, packed, ui_vars, variant,
                   params,
                   population, population1, generation, generations_no_improvement,
                   prev_fitness, gpc, iter, parents, offspring, result>>

\* evolve_new_generation (rayon): a task leaves its map_op, with a mutant
\* or an offspring
RayonTaskEnd ==
    /\ gpc = "evolve" /\ variant = "rayon"
    /\ \E t \in running :
          IF t.task - 1 < params.num_mutants
          THEN /\ \E c \in GAChromosomes :
                     \E o \in decode_chromosome(decoders[t.decoder], c) :
                         /\ slots' = [slots EXCEPT ![t.task] = o.entry]
                         /\ decoders' = [decoders EXCEPT ![t.decoder] = o.buffer]
               /\ running' = running \ {t}
               /\ UNCHANGED <<parents, offspring, gpc>>
          ELSE IF pickup_parents_for_crossover(params) = {}
          THEN /\ gpc' = "panic"
               /\ UNCHANGED <<slots, decoders, running, parents, offspring>>
          ELSE /\ \E pr \in pickup_parents_for_crossover(params),
                     draws \in Draws(2 * Len(boxes)) :
                     \E o \in decode_chromosome(
                                  decoders[t.decoder],
                                  crossover(population[pr[1] + 1].chromosome,
                                            population[pr[2] + 1].chromosome,
                                            draws, params.inherit_elite_probability)) :
                         /\ parents' = pr
                         /\ offspring' = o.entry.chromosome
                         /\ slots' = [slots EXCEPT ![t.task] = o.entry]
                         /\ decoders' = [decoders EXCEPT ![t.decoder] = o.buffer]
               /\ running' = running \ {t}
               /\ gpc' = gpc
    /\ UNCHANGED <<problem_vars, placer_vars, geom_vars, packed, ui_vars, variant,
                   params,
                   population, population1, generation, generations_no_improvement,
                   prev_fitness, iter, result>>

InitRayon == InitGA /\ variant = "rayon"

NextRayon ==
    \/ SolveBegin
    \/ RayonTaskStart
    \/ RayonInitTaskEnd \/ RayonInitSort
    \/ RayonBegin \/ RayonTaskEnd \/ RayonCollect
    \/ SolveReturn

SpecRayon == InitRayon /\ [][NextRayon]_vars

(***************************************************************************)
(* The scenarios of the specification's table: A, B, C and D.              *)
(***************************************************************************)
ScenarioA == [bin |-> Cuboid(10, 10, 10), items |-> <<Cuboid(10, 10, 10)>>,
              rotation |-> "ThreeDimension"]

ScenarioB == [bin |-> Cuboid(10, 10, 10), items |-> [i \in 1..8 |-> Cuboid(5, 5, 5)],
              rotation |-> "ThreeDimension"]

ScenarioC == [bin |-> Cuboid(10, 10, 10),
              items |-> <<Cuboid(10, 10, 10), Cuboid(10, 10, 10)>>,
              rotation |-> "ThreeDimension"]

ScenarioD == [bin |-> Cuboid(10, 10, 10), items |-> <<Cuboid(3, 5, 7)>>,
              rotation |-> "TwoDimension"]

\* the sequence s with its elements at i and j exchanged
SwapAt(s, i, j) ==
    [k \in 1..Len(s) |-> IF k = i THEN s[j] ELSE IF k = j THEN s[i] ELSE s[k]]

\* For more than MaxItems items: the chromosomes whose BPS keys are the
\* ascending or the descending keys 0, 1, .., n - 1 with at most two of them
\* exchanged, and whose VBO genes are all the same gene.
SampleChromosomes(n) ==
    LET up == [i \in 1..n |-> i - 1]
        down == [i \in 1..n |-> n - i]
        keys == {SwapAt(k, i, j) : k \in {up, down}, i \in 1..n, j \in 1..n}
    IN  {k \o [i \in 1..n |-> g] : k \in keys, g \in Genes}

ScenarioChromosomes(n) ==
    IF n <= MaxItems THEN Chromosomes(n) ELSE SampleChromosomes(n)

StartDecodeScenario == StartDecodeOf(ScenarioChromosomes(Len(boxes)))

InitScenario ==
    PlacerInit({ScenarioA, ScenarioB, ScenarioC, ScenarioD}) /\ NoSolver
        /\ InputProcess_create

NextScenario == StartDecodeScenario \/ PlaceNext \/ FinishDecode

SpecScenario == InitScenario /\ [][NextScenario]_vars

(***************************************************************************)
(* The orientation lists: orientations_for (src/src/geom.rs) and           *)
(* rotate_cuboid (src/src/placer.rs) applied to one cuboid.                *)
(***************************************************************************)
\* the largest dimension of the cuboid
MaxDim == 4

GeomCuboids == {Cuboid(w, d, h) : w \in 1..MaxDim, d \in 1..MaxDim, h \in 1..MaxDim}

\* one cuboid and a rotation type; no decode and no Solver runs
InitGeom ==
    /\ \E c \in GeomCuboids :
          /\ boxes = <<InnerBox(c)>>
          /\ bin_spec = c
    /\ rotation_type \in RotationTypes
    /\ PlacerIdle
    /\ GeomIdle
    /\ NoSolver
    /\ InputProcess_create

\* rotation_type.orientations_for(&cuboid)
OrientationsFor ==
    /\ pc = "idle"
    /\ orientations' = orientations_for(rotation_type, boxes[1].cuboid)
    /\ pc' = "oriented"
    /\ UNCHANGED <<problem_vars, bins, size, bps, chromosome, bps_idx, placements,
                   min_dimension, min_volume, solution, ga_vars, ui_vars, space_a, space_b,
                   intersected, new_spaces, packed>>

\* orientations.clear(); rotate_cuboid(rotation_type, &cuboid, &mut orientations)
RotateCuboid ==
    /\ pc = "idle"
    /\ orientations' = rotate_cuboid(rotation_type, boxes[1].cuboid)
    /\ pc' = "rotated"
    /\ UNCHANGED <<problem_vars, bins, size, bps, chromosome, bps_idx, placements,
                   min_dimension, min_volume, solution, ga_vars, ui_vars, space_a, space_b,
                   intersected, new_spaces, packed>>

NextGeom == OrientationsFor \/ RotateCuboid

SpecGeom == InitGeom /\ [][NextGeom]_vars

(***************************************************************************)
(* Pairs of spaces: Space::intersects (src/src/geom.rs) and                *)
(* difference_process (src/src/placer.rs) applied to one pair.             *)
(***************************************************************************)
\* the largest coordinate of a corner
MaxCoord == 3

\* the corners with coordinates in 0..MaxCoord
GeomPoints == {Point(x, y, z) : x \in 0..MaxCoord, y \in 0..MaxCoord, z \in 0..MaxCoord}

\* the spaces of positive extent on every axis
GeomSpaces ==
    {sp \in {Space(bl, ur) : bl \in GeomPoints, ur \in GeomPoints} :
        width(sp) > 0 /\ depth(sp) > 0 /\ height(sp) > 0}

\* a pair of spaces; no placer and no Solver
InitSpaces ==
    /\ boxes = <<>>
    /\ bin_spec = Cuboid(MaxCoord, MaxCoord, MaxCoord)
    /\ rotation_type = "ThreeDimension"
    /\ PlacerIdle
    /\ NoSolver
    /\ InputProcess_create
    /\ space_a \in GeomSpaces
    /\ space_b \in GeomSpaces
    /\ NoGeomCall

\* space_a.intersects(&space_b)
Intersects ==
    /\ pc = "idle"
    /\ intersected' = intersects(space_a, space_b)
    /\ pc' = "intersected"
    /\ UNCHANGED <<problem_vars, bins, size, bps, chromosome, bps_idx, placements,
                   min_dimension, min_volume, solution, ga_vars, ui_vars, orientations,
                   space_a, space_b, new_spaces, packed>>

\* the call allocate_space makes for an empty space space_a that intersects
\* the placed space space_b, with a filter that accepts every space:
\* difference_process(space_a, &space_a.union(space_b), &mut new_spaces, |_| true)
DifferenceProcess ==
    /\ pc = "idle"
    /\ intersects(space_a, space_b)
    /\ new_spaces' = difference_process(space_a, union(space_a, space_b), 0, 0)
    /\ pc' = "differenced"
    /\ UNCHANGED <<problem_vars, bins, size, bps, chromosome, bps_idx, placements,
                   min_dimension, min_volume, solution, ga_vars, ui_vars, orientations,
                   space_a, space_b, intersected, packed>>

NextSpaces == Intersects \/ DifferenceProcess

SpecSpaces == InitSpaces /\ [][NextSpaces]_vars

(***************************************************************************)
(* src/visualizer/src: the input form (InputProcess), its validation       *)
(* (ProblemSpec::validate) and the request the App sends to the pack       *)
(* worker.  src/src/web has the same form over DataSpec::new.              *)
(***************************************************************************)
\* what the user types into a number field
Inputs == {"2", "-2", "0.5", "x"}

\* parse_number::<T>: <<n>> for Ok(n), <<>> for Err(NotValidNumber); an f64
\* is held in hundredths
parse_number(T, s) ==
    CASE T = "i32" -> IF s = "2" THEN <<2>> ELSE IF s = "-2" THEN <<-2>> ELSE <<>>
      [] T = "usize" -> IF s = "2" THEN <<2>> ELSE <<>>
      [] T = "f64" -> IF s = "2" THEN <<200>>
                      ELSE IF s = "-2" THEN <<-200>>
                      ELSE IF s = "0.5" THEN <<50>>
                      ELSE <<>>

\* struct Item
Item(w, d, h, group) == [width |-> w, depth |-> d, height |-> h, group |-> group]

\* what ItemsLoaded may carry: Err, or Ok of the items parse_csv read and the
\* name of the file
CsvResults ==
    {[ok |-> FALSE, items |-> <<>>, name |-> "bad.csv"],
     [ok |-> TRUE, items |-> <<>>, name |-> "none.csv"],
     [ok |-> TRUE, items |-> <<Item(1, 1, 1, 0)>>, name |-> "one.csv"],
     [ok |-> TRUE, items |-> <<Item(1, 1, 1, 0), Item(3, 1, 1, 1)>>, name |-> "two.csv"]}

\* the form is on the page: the App shows it until a problem is submitted
FormShown == request = <<>>

\* what a handler of the form leaves alone
FormFrame == UNCHANGED <<problem_vars, placer_vars, ga_vars, geom_vars, packed>>

\* Msg::ItemsLoaded(result)
ItemsLoaded ==
    /\ FormShown
    /\ \E loaded \in CsvResults :
          IF loaded.ok
          THEN /\ problem_spec' = [problem_spec EXCEPT !.items = loaded.items]
               /\ file_name' = loaded.name
          ELSE UNCHANGED <<problem_spec, file_name>>
    /\ UNCHANGED request
    /\ FormFrame

\* "bin_spec.<field> = parse_number(s)?": the field of the bin is assigned
\* unless the parse fails
SetBin(field, s) ==
    /\ FormShown
    /\ problem_spec' = IF parse_number("i32", s) = <<>> THEN problem_spec
                        ELSE [problem_spec EXCEPT !.bin[field] = parse_number("i32", s)[1]]
    /\ UNCHANGED <<file_name, request>>
    /\ FormFrame

\* "params.<field> = parse_number(s)?", T being the type of the field
SetParam(field, T, s) ==
    /\ FormShown
    /\ problem_spec' = IF parse_number(T, s) = <<>> THEN problem_spec
                        ELSE [problem_spec EXCEPT !.params[field] = parse_number(T, s)[1]]
    /\ UNCHANGED <<file_name, request>>
    /\ FormFrame

\* the Update messages, s being the text of the field
UpdateBinWidth(s) == SetBin("width", s)

UpdateBinDepth(s) == SetBin("depth", s)

UpdateBinHeight(s) == SetBin("height", s)

UpdatePopFactor(s) == SetParam("population_factor", "usize", s)

UpdateElitesPer(s) == SetParam("elites_percentage", "f64", s)

\* Msg::UpdateMutantsPer(s): "params.max_generations = parse_number(s)?"
UpdateMutantsPer(s) == SetParam("max_generations", "i32", s)

UpdateProb(s) == SetParam("inherit_elite_probability", "f64", s)

UpdateMaxGen(s) == SetParam("max_generations", "i32", s)

UpdateMaxGenNoImprove(s) == SetParam("max_generations_no_improvement", "i32", s)

\* Msg::UpdateRotation
UpdateRotation ==
    /\ FormShown
    /\ problem_spec' =
          [problem_spec EXCEPT !.params.box_rotation_type =
              IF @ = "ThreeDimension" THEN "TwoDimension" ELSE "ThreeDimension"]
    /\ UNCHANGED <<file_name, request>>
    /\ FormFrame

\* ProblemSpec::validate (DataSpec::new makes the same two tests)
validate(ps) ==
    IF ps.items = <<>> THEN "NoBoxToBePack"
    ELSE IF ps.bin.height <= 0 \/ ps.bin.depth <= 0 \/ ps.bin.width <= 0
    THEN "InvalidBinSpec"
    ELSE "Ok"

\* Msg::Submit, and App::update on the Msg::Submit that onsubmit emits: a
\* clone of the problem is sent to the pack worker
Submit ==
    /\ FormShown
    /\ request' = IF validate(problem_spec) = "Ok" THEN <<problem_spec>> ELSE request
    /\ UNCHANGED <<problem_spec, file_name>>
    /\ FormFrame

InitForm ==
    /\ boxes = <<>>
    /\ bin_spec = Cuboid(0, 0, 0)
    /\ rotation_type = "ThreeDimension"
    /\ PlacerIdle
    /\ GeomIdle
    /\ NoSolver
    /\ InputProcess_create

NextForm ==
    \/ ItemsLoaded
    \/ \E s \in Inputs : UpdateBinWidth(s)
    \/ \E s \in Inputs : UpdateBinDepth(s)
    \/ \E s \in Inputs : UpdateBinHeight(s)
    \/ \E s \in Inputs : UpdatePopFactor(s)
    \/ \E s \in Inputs : UpdateElitesPer(s)
    \/ \E s \in Inputs : UpdateMutantsPer(s)
    \/ \E s \in Inputs : UpdateProb(s)
    \/ \E s \in Inputs : UpdateMaxGen(s)
    \/ \E s \in Inputs : UpdateMaxGenNoImprove(s)
    \/ UpdateRotation
    \/ Submit

SpecForm == InitForm /\ [][NextForm]_vars

(***************************************************************************)
(* src/src/packer/placer.rs: the older placer, its thresholds and filter.  *)
(***************************************************************************)
\* the problems the older place_boxes is run on
PackerProblems ==
    {p \in Problems : p.bin = Cuboid(2, 2, 2) /\ p.rotation = "ThreeDimension"}

\* min_dimension_and_volume of the older placer, over a slice of bps: both
\* minima start from -1
RECURSIVE packer_min_dimension_and_volume(_, _)
packer_min_dimension_and_volume(bxs, remain_bps) ==
    IF remain_bps = <<>> THEN <<-1, -1>>
    ELSE LET rest == packer_min_dimension_and_volume(bxs, Tail(remain_bps))
             b == bxs[Head(remain_bps)[1] + 1]
         IN  <<Min2(rest[1], b.smallest_dimension), Min2(rest[2], b.volume)>>

\* the closure the older place_boxes hands to allocate_space
packer_new_space_filter(ns, min_d, min_v) ==
    LET w == width(ns)
        d == depth(ns)
        h == height(ns)
        v == w * d * h
    IN  Min2(Min2(w, d), h) >= min_d /\ v >= min_v

\* the spaces difference_process may offer the closure: the spaces of
\* positive extent that start at the corner of the bin and lie in it
PackerCandidates ==
    {sp \in GeomSpaces :
        /\ sp.bottom_left = Point(0, 0, 0)
        /\ sp.upper_right.x <= bin_spec.width
        /\ sp.upper_right.y <= bin_spec.depth
        /\ sp.upper_right.z <= bin_spec.height}

\* Placer::new of the older placer and the first statements of place_boxes:
\* no bin yet, bps sorted
InitPacker ==
    /\ \E p \in PackerProblems :
          /\ boxes = [i \in 1..Len(p.items) |-> InnerBox(p.items[i])]
          /\ bin_spec = p.bin
          /\ rotation_type = p.rotation
    /\ chromosome \in Chromosomes(Len(boxes))
    \* calculate_bps of the older placer is the same sort by key
    /\ bps \in sorted_bps(chromosome)
    /\ bins = <<>>
    /\ size = 0
    /\ bps_idx = 0
    /\ placements = <<>>
    /\ min_dimension = I32Max
    /\ min_volume = I32Max
    /\ pc = "idle"
    /\ solution = NoSolution
    /\ GeomIdle
    /\ NoSolver
    /\ InputProcess_create

\* one turn of the loop of the older place_boxes, up to the thresholds: they
\* are taken over bps[bps_idx..], the box being placed included
PackerThresholds ==
    /\ pc = "idle"
    /\ bps_idx < Len(bps)
    /\ \E t \in {packer_min_dimension_and_volume(boxes, SubSeq(bps, bps_idx + 1, Len(bps)))} :
          /\ min_dimension' = t[1]
          /\ min_volume' = t[2]
    /\ new_spaces' = <<>>
    /\ pc' = "thresholds"
    /\ UNCHANGED <<problem_vars, bins, size, bps, chromosome, bps_idx, placements,
                   solution, ga_vars, ui_vars, orientations, space_a, space_b,
                   intersected, packed>>

\* the rest of the turn: allocate_space offers a candidate to the closure,
\* which keeps it or not, and the loop moves to the next box
PackerFilter ==
    /\ pc = "thresholds"
    /\ \E ns \in PackerCandidates :
          new_spaces' = IF packer_new_space_filter(ns, min_dimension, min_volume)
                        THEN <<ns>> ELSE <<>>
    /\ bps_idx' = bps_idx + 1
    /\ pc' = "idle"
    /\ UNCHANGED <<problem_vars, bins, size, bps, chromosome, placements,
                   min_dimension, min_volume, solution, ga_vars, ui_vars,
                   orientations, space_a, space_b, intersected, packed>>

NextPacker == PackerThresholds \/ PackerFilter

SpecPacker == InitPacker /\ [][NextPacker]_vars

(***************************************************************************)
(* Claims about the decoder.                                               *)
(***************************************************************************)
RECURSIVE SumSeq(_)
SumSeq(s) == IF s = <<>> THEN 0 ELSE Head(s) + SumSeq(Tail(s))

\* the placements of a sequence that went to bin b
InBin(ps, b) == SelectSeq(ps, LAMBDA p : p.bin_no = b)

\* two spaces share no interior volume: an axis separates them
Separated(a, b) ==
    \/ a.upper_right.x <= b.bottom_left.x \/ b.upper_right.x <= a.bottom_left.x
    \/ a.upper_right.y <= b.bottom_left.y \/ b.upper_right.y <= a.bottom_left.y
    \/ a.upper_right.z <= b.bottom_left.z \/ b.upper_right.z <= a.bottom_left.z

\* a space lies inside the bin, whose extents on x, y, z are width, height, depth
InsideBin(s) ==
    /\ s.bottom_left.x >= 0 /\ s.bottom_left.y >= 0 /\ s.bottom_left.z >= 0
    /\ s.upper_right.x <= bin_spec.width
    /\ s.upper_right.y <= bin_spec.height
    /\ s.upper_right.z <= bin_spec.depth

\* C1: a decode of a valid problem returns (it does not index out of range),
\* and the solution it returns holds exactly N placements in which every item
\* index 0..N-1 appears exactly once.
C1_EveryItemPlacedOnce ==
    /\ pc # "panic"
    /\ pc = "returned" =>
          /\ Len(solution.placements) = Len(boxes)
          /\ \A k \in 0..(Len(boxes) - 1) :
                Cardinality({i \in 1..Len(solution.placements) :
                                solution.placements[i].box_idx = k}) = 1

C1_Witness ==
    /\ pc = "returned"
    /\ Len(boxes) >= 3
    /\ solution.num_bins >= 2
    /\ solution.placements[1].box_idx # 0

\* C2: at every point of a decode, and in the solution returned, any two
\* placements of the same bin are separated on some axis.
C2_NoOverlap ==
    \A ps \in {placements, solution.placements} :
        \A i, j \in 1..Len(ps) :
            (i < j /\ ps[i].bin_no = ps[j].bin_no) => Separated(ps[i].space, ps[j].space)

C2_Witness ==
    /\ pc = "placing"
    /\ Len(placements) >= 3
    /\ \A i \in 1..Len(placements) : placements[i].bin_no = 0

\* C3: every placement made lies inside its bin.
C3_InsideBin ==
    \A ps \in {placements, solution.placements} :
        \A i \in 1..Len(ps) : InsideBin(ps[i].space)

C3_Witness ==
    /\ pc = "returned"
    /\ bin_spec.depth # bin_spec.height
    /\ \E i \in 1..Len(solution.placements) :
          LET s == solution.placements[i].space
          IN  /\ s.bottom_left # Point(0, 0, 0)
              /\ s.upper_right = Point(bin_spec.width, bin_spec.height, bin_spec.depth)

\* C4: the eight cubes of scenario B are decoded into one full bin, whatever
\* the chromosome.
C4_ScenarioB_OneBin ==
    (pc = "returned" /\ bin_spec = ScenarioB.bin /\ Len(boxes) = Len(ScenarioB.items)) =>
        /\ solution.num_bins = 1
        /\ \A i \in 1..Len(solution.placements) : solution.placements[i].bin_no = 0
        /\ solution.least_load = volume(bin_spec)

\* C5: when a decode returns, the volumes of the placement spaces add up to
\* the volumes of the items, and the used_volume of every opened bin is the
\* sum of the volumes of the boxes placed in it.
C5_VolumeConserved ==
    pc = "returned" =>
        /\ SumSeq([i \in 1..Len(solution.placements) |->
                      width(solution.placements[i].space)
                      * height(solution.placements[i].space)
                      * depth(solution.placements[i].space)])
           = SumSeq([i \in 1..Len(boxes) |-> boxes[i].volume])
        /\ \A b \in 0..(size - 1) :
              bins[b + 1].used_volume =
                  SumSeq([i \in 1..Len(InBin(solution.placements, b)) |->
                             boxes[InBin(solution.placements, b)[i].box_idx + 1].volume])

C5_Witness ==
    /\ pc = "returned"
    /\ size >= 2
    /\ Len(InBin(solution.placements, 0)) >= 2
    /\ \E i \in 1..Len(solution.placements) :
          /\ width(solution.placements[i].space)
                # boxes[solution.placements[i].box_idx + 1].cuboid.width
          /\ solution.placements[i].bin_no = 1

\* C6: the bins of a returned solution have room for the items:
\* num_bins * bin_volume >= the sum of the item volumes.
C6_VolumeLowerBound ==
    pc = "returned" =>
        solution.num_bins * volume(bin_spec)
            >= SumSeq([i \in 1..Len(boxes) |-> boxes[i].volume])

C6_Witness ==
    /\ pc = "returned"
    /\ solution.num_bins >= 2
    /\ (solution.num_bins - 1) * volume(bin_spec)
           < SumSeq([i \in 1..Len(boxes) |-> boxes[i].volume])

\* C11: under TwoDimension the orientations of an item are (w, d, h) and,
\* when w # d, (d, w, h), so that every placement made has the height (y)
\* extent of its item.
C11_TwoDimensionKeepsHeight ==
    rotation_type = "TwoDimension" =>
        /\ \A i \in 1..Len(boxes) :
              rotate_cuboid(rotation_type, boxes[i].cuboid)
                  = <<boxes[i].cuboid>>
                    \o (IF boxes[i].cuboid.width # boxes[i].cuboid.depth
                        THEN <<Cuboid(boxes[i].cuboid.depth, boxes[i].cuboid.width,
                                      boxes[i].cuboid.height)>>
                        ELSE <<>>)
        /\ \A ps \in {placements, solution.placements} :
              \A i \in 1..Len(ps) :
                  height(ps[i].space) = boxes[ps[i].box_idx + 1].cuboid.height

C11_Witness ==
    /\ rotation_type = "TwoDimension"
    /\ pc = "returned"
    /\ \E i \in 1..Len(solution.placements) :
          LET p == solution.placements[i]
          IN  /\ width(p.space) # boxes[p.box_idx + 1].cuboid.width
              /\ height(p.space) # depth(p.space)
    /\ \E i \in 1..Len(solution.placements) :
          height(solution.placements[i].space) > width(solution.placements[i].space)

\* every item is exactly the size of the bin
ItemsEqualBin == \A i \in 1..Len(boxes) : boxes[i].cuboid = bin_spec

\* the whole bin as a space
WholeBin ==
    Space(Point(0, 0, 0), Point(bin_spec.width, bin_spec.height, bin_spec.depth))

\* C18: the first placement of every opened bin is anchored at (0,0,0); and
\* when every item is exactly the size of the bin, every chromosome decodes
\* to as many bins as items, each holding one placement, which is anchored
\* at the origin and fills the bin.
C18_OnePerBinAtOrigin ==
    pc = "returned" =>
        /\ \A b \in 0..(solution.num_bins - 1) :
              /\ InBin(solution.placements, b) # <<>>
              /\ InBin(solution.placements, b)[1].space.bottom_left = Point(0, 0, 0)
        /\ ItemsEqualBin =>
              /\ solution.num_bins = Len(boxes)
              /\ \A b \in 0..(solution.num_bins - 1) :
                    /\ Len(InBin(solution.placements, b)) = 1
                    /\ InBin(solution.placements, b)[1].space = WholeBin

C18_Witness ==
    /\ pc = "returned"
    /\ ItemsEqualBin
    /\ Len(boxes) = MaxItems
    /\ Len(solution.placements) = MaxItems
    /\ solution.placements[1].box_idx = MaxItems - 1

\* C19: the PackSolution has exactly num_bins inner vectors; inner vector b
\* holds the placements with bin_no = b, as (space, item_idx), in placement
\* order; every bin_no is below num_bins, and no inner vector is empty.
C19_PackSolutionShape ==
    /\ pc \in {"returned", "packed"} =>
          \A i \in 1..Len(solution.placements) :
              solution.placements[i].bin_no < solution.num_bins
    /\ pc = "packed" =>
          /\ Len(packed) = solution.num_bins
          /\ \A b \in 1..Len(packed) :
                /\ packed[b] # <<>>
                /\ Len(packed[b]) = Len(InBin(solution.placements, b - 1))
                /\ \A k \in 1..Len(packed[b]) :
                      packed[b][k] =
                          [space |-> InBin(solution.placements, b - 1)[k].space,
                           item_idx |-> InBin(solution.placements, b - 1)[k].box_idx]

\* two bins, the first filled before and after the second was opened, by
\* items taken in another order than their indices
C19_Witness ==
    /\ pc = "packed"
    /\ Len(packed) = 2
    /\ Len(packed[1]) = 2
    /\ solution.placements[2].bin_no = 1
    /\ packed[1][1].item_idx > packed[1][2].item_idx

(***************************************************************************)
(* Claims about pairs of spaces.                                           *)
(***************************************************************************)
\* the unit cells of a space, each named by its lower corner
Cells(sp) ==
    {Point(x, y, z) : x \in sp.bottom_left.x..(sp.upper_right.x - 1),
                      y \in sp.bottom_left.y..(sp.upper_right.y - 1),
                      z \in sp.bottom_left.z..(sp.upper_right.z - 1)}

\* a space of positive extent on every axis
NonDegenerate(sp) ==
    /\ sp.bottom_left.x < sp.upper_right.x
    /\ sp.bottom_left.y < sp.upper_right.y
    /\ sp.bottom_left.z < sp.upper_right.z

\* the space a lies in the space b
Within(a, b) ==
    /\ b.bottom_left.x <= a.bottom_left.x /\ a.upper_right.x <= b.upper_right.x
    /\ b.bottom_left.y <= a.bottom_left.y /\ a.upper_right.y <= b.upper_right.y
    /\ b.bottom_left.z <= a.bottom_left.z /\ a.upper_right.z <= b.upper_right.z

\* the extents of a and b overlap on every axis, strictly
StrictOverlap(a, b) ==
    /\ a.bottom_left.x < b.upper_right.x /\ b.bottom_left.x < a.upper_right.x
    /\ a.bottom_left.y < b.upper_right.y /\ b.bottom_left.y < a.upper_right.y
    /\ a.bottom_left.z < b.upper_right.z /\ b.bottom_left.z < a.upper_right.z

\* the clipped occupied region difference_process was handed
Occupied == union(space_a, space_b)

\* C12: a.intersects(b) returns what b.intersects(a) returns.
C12_IntersectsSymmetric ==
    pc = "intersected" => (intersected <=> intersects(space_b, space_a))

C12_Witness ==
    /\ pc = "intersected"
    /\ intersected
    /\ ~Within(space_a, space_b)
    /\ ~Within(space_b, space_a)
    /\ space_a.bottom_left.x < space_b.bottom_left.x

\* C13: a.intersects(b) returns true exactly when the extents of a and b
\* overlap strictly on each of the three axes; spaces that only touch do not
\* intersect.
C13_IntersectsStrict ==
    pc = "intersected" => (intersected <=> StrictOverlap(space_a, space_b))

\* C14: for a non-degenerate region O inside S and a filter that accepts
\* every space, the slabs difference_process returns cover exactly S minus O:
\* each lies in S, none shares interior with O, and every unit cell of S
\* outside O lies in one of them.
C14_DifferenceCovers ==
    (pc = "differenced" /\ NonDegenerate(Occupied)) =>
        /\ \A i \in 1..Len(new_spaces) :
              /\ Within(new_spaces[i], space_a)
              /\ Separated(new_spaces[i], Occupied)
        /\ UNION {Cells(new_spaces[i]) : i \in 1..Len(new_spaces)}
               = Cells(space_a) \ Cells(Occupied)

C14_Witness ==
    /\ pc = "differenced"
    /\ NonDegenerate(Occupied)
    /\ Occupied # space_b
    /\ Len(new_spaces) = 5

\* C15 as stated: the spaces difference_process returns for a region inside
\* S are pairwise non-overlapping in interior.
C15_SlabsDisjoint ==
    pc = "differenced" =>
        \A i, j \in 1..Len(new_spaces) :
            i < j => Separated(new_spaces[i], new_spaces[j])

\* C15 as amended: the spaces difference_process returns for a
\* non-degenerate region inside S are maximal slabs, which may overlap one
\* another in interior; none of them lies in another.
C15_SlabsNotNested ==
    (pc = "differenced" /\ NonDegenerate(Occupied)) =>
        \A i, j \in 1..Len(new_spaces) :
            i # j => ~Within(new_spaces[i], new_spaces[j])

C15_Witness ==
    /\ pc = "differenced"
    /\ NonDegenerate(Occupied)
    /\ Len(new_spaces) = 6
    /\ ~Separated(new_spaces[2], new_spaces[4])

(***************************************************************************)
(* Claims about the Solver.                                                *)
(***************************************************************************)
\* C7: once init_first_generation has returned, and so after every
\* evolve_new_generation, in both builds, the population holds exactly
\* population_size entries (num_elites + num_mutants <= population_size);
\* population1 is empty whenever a generation step starts.
C7_PopulationSize ==
    /\ gpc \in {"loop", "evolve", "returned"} =>
          Len(population) = params.population_size
    /\ gpc = "loop" => population1 = <<>>

C7_Witness ==
    /\ gpc = "loop"
    /\ generation = MaxGen
    /\ variant = "rayon"
    /\ params.num_elites = 1
    /\ params.num_mutants = 1
    /\ Len(population) = MaxPop

\* C8: with num_elites >= 1, the fitness of population[0] after an
\* evolve_new_generation is at most the fitness of population[0] before it.
C8_IncumbentNeverWorse ==
    [][(gpc = "evolve" /\ gpc' = "loop" /\ params.num_elites >= 1) =>
           population'[1].fitness <= population[1].fitness]_vars

C8_Witness ==
    /\ gpc = "loop"
    /\ generation >= 1
    /\ params.num_elites >= 1
    /\ population[1].fitness < prev_fitness
    /\ population[Len(population)].fitness > population[1].fitness

\* C9: with inherit_elite_probability = 1.0 the offspring crossover returns
\* is the chromosome of the elite parent, gene for gene, whatever is drawn.
C9_OffspringIsElite ==
    (gpc = "evolve" /\ parents # <<>> /\ params.inherit_elite_probability = ProbDen) =>
        /\ Len(offspring) = Len(population[parents[1] + 1].chromosome)
        /\ \A i \in 1..Len(offspring) :
              offspring[i] = population[parents[1] + 1].chromosome[i]

C9_Witness ==
    /\ gpc = "evolve"
    /\ parents # <<>>
    /\ params.inherit_elite_probability = ProbDen
    /\ offspring # <<>>
    /\ population[parents[2] + 1].chromosome # population[parents[1] + 1].chromosome

(***************************************************************************)
(* Claims about the orientation lists.                                     *)
(***************************************************************************)
\* the distinct permutations of (w, d, h)
PermutationsOf(c) ==
    {Cuboid(c.width, c.depth, c.height), Cuboid(c.width, c.height, c.depth),
     Cuboid(c.depth, c.width, c.height), Cuboid(c.depth, c.height, c.width),
     Cuboid(c.height, c.width, c.depth), Cuboid(c.height, c.depth, c.width)}

\* how many of the three dimensions of c have distinct values
DistinctDims(c) == Cardinality({c.width, c.depth, c.height})

\* C10: under ThreeDimension the list of orientations_for, and of
\* rotate_cuboid, holds every distinct permutation of (w, d, h) exactly once
\* and nothing else: 1 entry for a cube, 3 when exactly two dimensions are
\* equal, 6 when all differ; its first entry is (w, d, h).
C10_OrientationList ==
    (pc \in {"oriented", "rotated"} /\ rotation_type = "ThreeDimension") =>
        /\ Range(orientations) = PermutationsOf(boxes[1].cuboid)
        /\ \A i, j \in 1..Len(orientations) :
              orientations[i] = orientations[j] => i = j
        /\ Len(orientations) = CASE DistinctDims(boxes[1].cuboid) = 1 -> 1
                                 [] DistinctDims(boxes[1].cuboid) = 2 -> 3
                                 [] DistinctDims(boxes[1].cuboid) = 3 -> 6
        /\ orientations[1] = boxes[1].cuboid

C10_Witness ==
    /\ pc = "oriented"
    /\ rotation_type = "ThreeDimension"
    /\ boxes[1].cuboid.width = boxes[1].cuboid.height
    /\ boxes[1].cuboid.width # boxes[1].cuboid.depth
    /\ Len(orientations) = 3

\* a generation has just been evolved and counted
GenerationCounted == gpc = "evolve" /\ gpc' = "loop"

\* C16: solve goes on evolving exactly while neither limit is reached and
\* returns as soon as one is: it evolves only with generation below
\* max_generations and the stagnation counter below
\* max_generations_no_improvement, it leaves the loop only with one of them
\* reached and none exceeded; each generation adds one to generation and
\* sets the stagnation counter to 0 when the incumbent fitness strictly
\* decreased and adds one to it otherwise.
C16_HaltsAtLimits ==
    /\ [](gpc = "evolve" =>
            /\ generation < params.max_generations
            /\ generations_no_improvement < params.max_generations_no_improvement)
    /\ [](gpc = "returned" =>
            /\ \/ generation >= params.max_generations
               \/ generations_no_improvement >= params.max_generations_no_improvement
            /\ generation <= Max2(0, params.max_generations)
            /\ generations_no_improvement
                  <= Max2(0, params.max_generations_no_improvement))
    /\ [][GenerationCounted =>
            /\ generation' = generation + 1
            /\ generations_no_improvement' =
                  IF population'[1].fitness < population[1].fitness
                  THEN 0 ELSE generations_no_improvement + 1]_vars
    /\ [][(gpc = "loop" /\ gpc' = "evolve") =>
            (generation < params.max_generations
             /\ generations_no_improvement < params.max_generations_no_improvement)]_vars
    /\ [][(gpc = "loop" /\ gpc' = "returned") =>
            (generation >= params.max_generations
             \/ generations_no_improvement >= params.max_generations_no_improvement)]_vars

\* a run that improved, then stagnated, and halted on the stagnation limit
\* before the generation limit
C16_Witness ==
    /\ gpc = "returned"
    /\ generations_no_improvement = params.max_generations_no_improvement
    /\ generation < params.max_generations
    /\ generation > generations_no_improvement

C20_PopulationSorted ==
    gpc \in {"loop", "evolve", "returned"} =>
        \A i, j \in 1..Len(population) :
            i < j => population[i].fitness <= population[j].fitness

C20_Witness ==
    /\ gpc = "loop"
    /\ generation >= 1
    /\ Len(population) = MaxPop
    /\ population[1].fitness < population[MaxPop].fitness

\* the entries the Solver holds: the population, the generation being
\* built, and the slots the parallel tasks have written
HeldEntries ==
    {population[i] : i \in 1..Len(population)}
        \cup {population1[i] : i \in 1..Len(population1)}
        \cup {slots[i] : i \in {j \in 1..Len(slots) : slots[j] # NoEntry}}

\* C21: every chromosome the Solver holds (initial, elite copy, mutant or
\* offspring) has exactly 2 * item_count genes.
C21_ChromosomeLength ==
    \A e \in HeldEntries : Len(e.chromosome) = 2 * Len(boxes)

\* an offspring mixed from both parents is held next to the entries of an
\* earlier generation
C21_Witness ==
    /\ gpc = "evolve"
    /\ generation >= 1
    /\ parents # <<>>
    /\ offspring \notin GAChromosomes
    /\ \E e \in HeldEntries : e.chromosome = offspring
    /\ Len(offspring) = 2 * Len(boxes)

\* C22 as stated: with population_size >= num_elites + num_mutants + 1,
\* solve never faults (no parent is drawn from an empty range, no index is
\* out of range).
C22_NoFault ==
    params.population_size >= params.num_elites + params.num_mutants + 1
        => gpc # "panic"

(***************************************************************************)
(* Claims about the steps of place_boxes.                                  *)
(***************************************************************************)
\* the item the next iteration of place_boxes packs
NextBoxIdx == bps[bps_idx + 1][1]

NextBox == boxes[NextBoxIdx + 1].cuboid

\* the orientation o, anchored at the lower corner of ems, stays in ems
FitsIn(o, ems) ==
    /\ o.width <= ems.upper_right.x - ems.bottom_left.x
    /\ o.height <= ems.upper_right.y - ems.bottom_left.y
    /\ o.depth <= ems.upper_right.z - ems.bottom_left.z

\* the admissible orientations of the next item, as a set
Admissible ==
    {rotate_cuboid(rotation_type, NextBox)[k] :
        k \in 1..Len(rotate_cuboid(rotation_type, NextBox))}

\* the opened bin b (1-based) has an empty space the next item fits in
BinFits(b) ==
    \E k \in 1..Len(bins[b].empty_space_list) :
        \E o \in Admissible : FitsIn(o, bins[b].empty_space_list[k])

\* an iteration of place_boxes has just placed an item
Placed ==
    /\ pc = "placing" /\ pc' = "placing"
    /\ Len(placements') = Len(placements) + 1

\* the placement the iteration pushed
LastPlacement == placements'[Len(placements')]

\* C23: each item goes to the lowest-index opened bin that has an empty
\* space the item fits in under an admissible orientation; only when no
\* opened bin has one is a bin opened, with the next index, and the item
\* is anchored at the origin of its interior, which nothing else occupies.
C23_FirstFit ==
    [][Placed =>
          IF \E b \in 1..size : BinFits(b)
          THEN /\ size' = size
               /\ BinFits(LastPlacement.bin_no + 1)
               /\ \A b \in 1..LastPlacement.bin_no : ~BinFits(b)
          ELSE /\ size' = size + 1
               /\ LastPlacement.bin_no = size
               /\ LastPlacement.space.bottom_left = Point(0, 0, 0)
               /\ bins'[size'].used_volume
                     = (LastPlacement.space.upper_right.x
                        * LastPlacement.space.upper_right.y
                        * LastPlacement.space.upper_right.z)
               /\ \A k \in 1..Len(bins'[size'].empty_space_list) :
                     /\ Within(bins'[size'].empty_space_list[k], WholeBin)
                     /\ Separated(bins'[size'].empty_space_list[k],
                                  LastPlacement.space)]_vars

\* the third item went back to the first bin although the second bin,
\* opened for the second item, has room for it too
C23_Witness ==
    /\ pc = "returned"
    /\ Len(placements) = 3
    /\ placements[1].bin_no = 0
    /\ placements[2].bin_no = 1
    /\ placements[3].bin_no = 0
    /\ \E k \in 1..Len(bins[2].empty_space_list) :
          \E j \in 1..Len(rotate_cuboid(rotation_type, boxes[placements[3].box_idx + 1].cuboid)) :
              FitsIn(rotate_cuboid(rotation_type, boxes[placements[3].box_idx + 1].cuboid)[j],
                     bins[2].empty_space_list[k])

\* the upper-right corner of the bin, as from_placement lays a cuboid out
BinUpperRight == Point(bin_spec.width, bin_spec.height, bin_spec.depth)

\* the squared distance from the corner to the upper-right corner of the
\* orientation o anchored at the lower corner of ems
CornerDist(corner, ems, o) ==
    (corner.x - (ems.bottom_left.x + o.width)) * (corner.x - (ems.bottom_left.x + o.width))
    + (corner.y - (ems.bottom_left.y + o.height)) * (corner.y - (ems.bottom_left.y + o.height))
    + (corner.z - (ems.bottom_left.z + o.depth)) * (corner.z - (ems.bottom_left.z + o.depth))

\* the distances, from corner, of the placements of the next item in the
\* empty spaces list: every empty space, every orientation that fits it
Dists(corner, list) ==
    UNION {{CornerDist(corner, list[k], o) :
               o \in {a \in Admissible : FitsIn(a, list[k])}} :
           k \in 1..Len(list)}

\* the empty space try_place_cuboid returns in the bin the item was put in
ChosenEms ==
    bins[LastPlacement.bin_no + 1].empty_space_list[
        try_place_cuboid(bins[LastPlacement.bin_no + 1], bin_spec, NextBox,
                         rotation_type) + 1]

\* the item was placed in a bin that was open already
PlacedInOpened == Placed /\ size' = size

\* C24 as stated: the empty space try_place_cuboid returns, where the box
\* is then anchored, attains the greatest squared distance between the
\* bin's upper-right corner (width, height, depth) and the upper-right
\* corner of the box, over all empty spaces of the bin and orientations
\* that fit.
C24_FarthestFromCorner ==
    [][PlacedInOpened =>
          /\ LastPlacement.space.bottom_left = ChosenEms.bottom_left
          /\ \E d \in Dists(BinUpperRight, <<ChosenEms>>) :
                \A e \in Dists(BinUpperRight,
                                bins[LastPlacement.bin_no + 1].empty_space_list) :
                    e <= d]_vars

PlaceStep == pc = "placing" /\ bps_idx' = bps_idx + 1

\* the empty space the iteration hands to place_box: the one try_place_cuboid
\* returned in an opened bin, or the interior of the bin it opened
Container == IF size' = size THEN ChosenEms ELSE WholeBin

\* the orientations of the next item that fit the container c, in the order
\* of the orientation list
FitList(c) ==
    SelectSeq(rotate_cuboid(rotation_type, NextBox), LAMBDA o : FitsIn(o, c))

\* the orientation gene of the next item: position N + box_idx, 0-based
OrientationGene == chromosome[Len(boxes) + NextBoxIdx + 1]

\* ceil(g * n) for the gene of numerator g
CeilOf(g, n) == CHOOSE c \in 0..n : c * GeneDen >= g * n /\ (c - 1) * GeneDen < g * n

\* the 0-based index max(1, ceil(g * n)) - 1
OrientationIndex(n) ==
    (IF CeilOf(OrientationGene, n) >= 1 THEN CeilOf(OrientationGene, n) ELSE 1) - 1

\* the placement pushed is the orientation of index i of the list F,
\* anchored at the lower corner of the container c
OrientationPlaced(c, F, i) ==
    /\ i \in 0..(Len(F) - 1)
    /\ OrientationGene = 0 => i = 0
    /\ LastPlacement.space.bottom_left = c.bottom_left
    /\ LastPlacement.space.upper_right
          = Point(c.bottom_left.x + F[i + 1].width,
                  c.bottom_left.y + F[i + 1].height,
                  c.bottom_left.z + F[i + 1].depth)
    /\ Within(LastPlacement.space, c)

\* C26: in every iteration place_box finds at least one orientation that
\* fits the chosen empty space; the index max(1, ceil(g * |F|)) - 1, with g
\* the gene at N + box_idx, is within 0..|F|-1 and is 0 for g = 0; the
\* placement is the orientation of that index anchored at the lower corner
\* of the empty space, and lies in the empty space.
C26_OrientationChoice ==
    [][PlaceStep =>
          /\ pc' = "placing"
          /\ Len(placements') = Len(placements) + 1
          /\ LastPlacement.box_idx = NextBoxIdx
          /\ \E c \in {Container} : \E F \in {FitList(c)} :
                /\ Len(F) >= 1
                /\ OrientationPlaced(c, F, OrientationIndex(Len(F)))]_vars

\* an item with a high orientation gene was placed away from the origin in
\* another orientation than the first of its list
C26_Witness ==
    /\ pc = "returned"
    /\ \E k \in 1..Len(placements) :
          /\ chromosome[Len(boxes) + placements[k].box_idx + 1] = GeneDen - 1
          /\ placements[k].space.bottom_left # Point(0, 0, 0)
          /\ placements[k].space
                # from_placement(placements[k].space.bottom_left,
                                 rotate_cuboid(rotation_type,
                                               boxes[placements[k].box_idx + 1].cuboid)[1])

\* the least of the integers of S, or the initial threshold when S is empty
LeastOf(S) == IF S = {} THEN I32Max ELSE CHOOSE m \in S : \A n \in S : m <= n

\* the cuboid of the item at position k (1-based) of the packing order
ItemAt(k) == boxes[bps[k][1] + 1].cuboid

\* the positions of the packing order after the one being packed
Remaining == (bps_idx + 2)..Len(bps)

\* C27: when an iteration calls allocate_space, the thresholds it passes and
\* keeps are the least smallest extent and the least volume of the items
\* that come after the placed one in the packing order.
C27_ThresholdsOfRemaining ==
    [][Placed =>
          /\ min_dimension'
                = LeastOf({LeastOf({ItemAt(k).width, ItemAt(k).depth, ItemAt(k).height}) :
                             k \in Remaining})
          /\ min_volume'
                = LeastOf({ItemAt(k).width * ItemAt(k).depth * ItemAt(k).height :
                             k \in Remaining})]_vars

\* an item after the first was placed that is above both thresholds, so the
\* thresholds kept are those computed at an earlier iteration
C27_Witness ==
    /\ pc = "placing"
    /\ bps_idx >= 2
    /\ Len(placements) = bps_idx
    /\ boxes[bps[bps_idx][1] + 1].smallest_dimension > min_dimension
    /\ boxes[bps[bps_idx][1] + 1].volume > min_volume

\* the empty spaces of the bin the item goes to, as allocate_space finds them
PreList ==
    IF size' = size THEN bins[LastPlacement.bin_no + 1].empty_space_list
    ELSE <<WholeBin>>

\* the spaces allocate_space hands to its filter: the empty spaces the
\* placement p leaves alone, and the slabs of positive extent cut from those
\* it intersects
Candidates(list, p) ==
    UNION {IF intersects(list[k], p)
           THEN Range(difference_process(list[k], union(list[k], p), 0, 0))
           ELSE {list[k]} :
           k \in 1..Len(list)}

\* the item at position k of the packing order fits the space sp in one of
\* its admissible orientations
ItemFits(k, sp) ==
    \E j \in 1..Len(rotate_cuboid(rotation_type, ItemAt(k))) :
        FitsIn(rotate_cuboid(rotation_type, ItemAt(k))[j], sp)

\* the space sp is below one of the thresholds
BelowThresholds(sp, md, mv) ==
    \/ \E e \in {sp.upper_right.x - sp.bottom_left.x,
                  sp.upper_right.y - sp.bottom_left.y,
                  sp.upper_right.z - sp.bottom_left.z} : e < md
    \/ (sp.upper_right.x - sp.bottom_left.x) * (sp.upper_right.y - sp.bottom_left.y)
          * (sp.upper_right.z - sp.bottom_left.z) < mv

\* the bin the item goes to, with nothing pruned
Unpruned(list, p) ==
    allocate_space([used_volume |-> 0, empty_space_list |-> list], p, 0, 0)

\* C28: the filter of allocate_space rejects exactly the spaces whose least
\* extent is below min_dimension or whose volume is below min_volume; no
\* item still to be packed fits a rejected space in any orientation, and
\* every such item fits an empty space of the bin exactly when it fits one
\* of the bin with nothing pruned.
C28_PruningDiscardsDeadSpace ==
    [][Placed =>
          \E list \in {PreList} :
             /\ \A c \in Candidates(list, LastPlacement.space) :
                   /\ ~new_space_filter(c, min_dimension', min_volume')
                         <=> BelowThresholds(c, min_dimension', min_volume')
                   /\ ~new_space_filter(c, min_dimension', min_volume')
                         => \A k \in Remaining : ~ItemFits(k, c)
             /\ \E u \in {Unpruned(list, LastPlacement.space).empty_space_list} :
                   \A k \in Remaining :
                      (\E n \in 1..Len(u) : ItemFits(k, u[n]))
                        <=> (\E n \in 1..Len(bins'[LastPlacement.bin_no + 1].empty_space_list) :
                                ItemFits(k, bins'[LastPlacement.bin_no + 1].empty_space_list[n]))]_vars

\* items remain to be packed, all of volume 2 or more, and a cell of an
\* opened bin is neither in a box nor in an empty space: it was pruned
C28_Witness ==
    /\ pc = "placing"
    /\ bps_idx < Len(bps)
    /\ min_volume >= 2
    /\ min_volume < I32Max
    /\ \E b \in 1..size : \E cell \in Cells(WholeBin) :
          /\ \A k \in 1..Len(bins[b].empty_space_list) :
                cell \notin Cells(bins[b].empty_space_list[k])
          /\ \A k \in 1..Len(placements) :
                placements[k].bin_no = b - 1 => cell \notin Cells(placements[k].space)

\* C29: in every opened bin no empty space of the list lies in another
\* element of the list, an equal one included.
C29_NoNestedEmptySpaces ==
    pc \in {"placing", "returned"} =>
        \A b \in 1..size :
            \A k, l \in 1..Len(bins[b].empty_space_list) :
                k # l => ~Within(bins[b].empty_space_list[k], bins[b].empty_space_list[l])

\* a bin holds two boxes and two empty spaces that overlap, neither in the
\* other
C29_Witness ==
    /\ pc = "placing"
    /\ \E b \in 1..size :
          /\ Len(InBin(placements, b - 1)) >= 2
          /\ \E k, l \in 1..Len(bins[b].empty_space_list) :
                /\ k # l
                /\ StrictOverlap(bins[b].empty_space_list[k], bins[b].empty_space_list[l])

\* C30: in every state of a decode, every empty space of an opened bin has
\* positive extent on the three axes, lies inside the bin and shares no
\* interior volume with a box placed in that bin.
C30_EmptySpacesAreFree ==
    pc \in {"placing", "returned"} =>
        \A b \in 1..size :
            \A k \in 1..Len(bins[b].empty_space_list) :
                /\ NonDegenerate(bins[b].empty_space_list[k])
                /\ Within(bins[b].empty_space_list[k], WholeBin)
                /\ \A n \in 1..Len(placements) :
                      placements[n].bin_no = b - 1
                        => Cells(bins[b].empty_space_list[k]) \cap Cells(placements[n].space) = {}

\* a bin holds two boxes and an empty space that has a face on the upper
\* side of one of them
C30_Witness ==
    /\ pc = "placing"
    /\ \E b \in 1..size :
          /\ Len(InBin(placements, b - 1)) >= 2
          /\ \E k \in 1..Len(bins[b].empty_space_list) :
                \E n \in 1..Len(placements) :
                   /\ placements[n].bin_no = b - 1
                   /\ bins[b].empty_space_list[k].bottom_left.x
                         = placements[n].space.upper_right.x
                   /\ bins[b].empty_space_list[k].bottom_left.y
                         < placements[n].space.upper_right.y
                   /\ bins[b].empty_space_list[k].bottom_left.z
                         < placements[n].space.upper_right.z

\* the x, y and z coordinates of the faces of the spaces of the set S
FacesX(S) == UNION {{sp.bottom_left.x, sp.upper_right.x} : sp \in S}

FacesY(S) == UNION {{sp.bottom_left.y, sp.upper_right.y} : sp \in S}

FacesZ(S) == UNION {{sp.bottom_left.z, sp.upper_right.z} : sp \in S}

\* the axis-aligned boxes of positive extent whose faces lie on faces of the
\* spaces of S
BoxesOn(S) ==
    {Space(Point(x1, y1, z1), Point(x2, y2, z2)) :
        x1 \in FacesX(S), x2 \in FacesX(S), y1 \in FacesY(S), y2 \in FacesY(S),
        z1 \in FacesZ(S), z2 \in FacesZ(S)}

\* the box B lies in an empty space of the list
Free(B, list) == \E k \in 1..Len(list) : Within(B, list[k])

\* C31 as stated: a box that lay in an empty space of the bin before
\* allocate_space, shares no interior volume with the placed box and passes
\* the pruning filter lies in an empty space of the bin afterwards.
C31_NoFreeSpaceLost ==
    [][Placed =>
          \E before \in {PreList} :
          \E after \in {bins'[LastPlacement.bin_no + 1].empty_space_list} :
             \A B \in BoxesOn(Range(before) \cup {LastPlacement.space}) :
                (/\ NonDegenerate(B)
                 /\ Free(B, before)
                 /\ Separated(B, LastPlacement.space)
                 /\ ~BelowThresholds(B, min_dimension', min_volume'))
                  => Free(B, after)]_vars

(***************************************************************************)
(* Claims about the decoder as the Solver uses it.                         *)
(***************************************************************************)
\* C32: every individual the Solver holds carries the solution and the
\* fitness a decoder that has decoded nothing returns for its chromosome,
\* whatever the decoder that decoded it had decoded before; and a bin opened
\* again from the buffer of a decoder has nothing used and the interior of
\* the bin as its only empty space.
C32_DecodingStateless ==
    /\ \A e \in HeldEntries :
          \E f \in decode_chromosome(<<>>, e.chromosome) : f.entry = e
    /\ \A j \in 1..Len(decoders) : \A k \in 0..(Len(decoders[j]) - 1) :
          open_new_bin([bins |-> decoders[j], size |-> k], bin_spec).bins[k + 1]
            = [used_volume |-> 0, empty_space_list |-> <<WholeBin>>]

\* the serial decoder decoded a chromosome into two bins and then, with both
\* bins in its buffer, another into one bin
C32_Witness ==
    /\ gpc = "init" /\ variant = "serial"
    /\ Len(population) = 2
    /\ population[1].solution.num_bins = 2
    /\ population[2].solution.num_bins = 1
    /\ Len(decoders[1]) = 2
    /\ decoders[1][2].used_volume > 0

\* the number of positions of the sequence seq that hold e
CountIn(e, seq) == Cardinality({i \in 1..Len(seq) : seq[i] = e})

\* the first num_elites entries of the population
Elite == SubSeq(population, 1, params.num_elites)

\* C33: a generation step puts the first num_elites entries of the previous
\* population into the new one as they are (chromosome, solution, fitness),
\* each as many times as it occurs among them; the serial variant copies
\* them first, before any decode of the step.
C33_ElitesCarried ==
    [][/\ GenerationCounted
          => \A i \in 1..params.num_elites :
                CountIn(population[i], Elite) <= CountIn(population[i], population')
       /\ (gpc = "loop" /\ gpc' = "evolve" /\ variant = "serial")
          => population1' = Elite]_vars

\* after a parallel generation step the incumbent is a new individual and
\* the previous incumbent, an elite, is still in the population
C33_Witness ==
    /\ gpc = "loop" /\ variant = "rayon"
    /\ generation >= 1
    /\ params.num_elites >= 1
    /\ population[1].fitness < prev_fitness
    /\ \E i \in 2..Len(population) : population[i].fitness = prev_fitness

\* a step of evolve_new_generation that produces an offspring
OffspringStep ==
    /\ gpc = "evolve" /\ gpc' = "evolve"
    /\ \/ variant = "serial" /\ iter >= params.num_mutants /\ iter' = iter + 1
       \/ /\ variant = "rayon"
          /\ \E i \in 1..Len(slots) :
                i - 1 >= params.num_mutants /\ slots[i] = NoEntry /\ slots'[i] # NoEntry

\* C34: the parents of every offspring are entries of the population of the
\* previous generation, the elite one at an index of [0, num_elites), the
\* other at an index of [num_elites, population_size): every gene of the
\* offspring is the gene of one of the two at its position; and the
\* previous population stays as it is until the step ends with the sort
\* and the swap.
C34_ParentsFromPrevious ==
    [][/\ OffspringStep
          => /\ Len(parents') = 2
             /\ parents'[1] \in 0..(params.num_elites - 1)
             /\ parents'[2] \in params.num_elites..(params.population_size - 1)
             /\ parents'[2] < Len(population)
             /\ Len(offspring') = Len(population[parents'[1] + 1].chromosome)
             /\ \A g \in 1..Len(offspring') :
                   offspring'[g] \in {population[parents'[1] + 1].chromosome[g],
                                       population[parents'[2] + 1].chromosome[g]}
       /\ gpc = "evolve" /\ gpc' # "loop" => population' = population]_vars

\* in a parallel generation step an offspring that mixes its two parents
\* has been produced while another task of the step is still to run
C34_Witness ==
    /\ gpc = "evolve" /\ variant = "rayon"
    /\ generation >= 1
    /\ Len(parents) = 2
    /\ offspring # population[parents[1] + 1].chromosome
    /\ offspring # population[parents[2] + 1].chromosome
    /\ \E i, j \in 1..Len(slots) :
          slots[i] = NoEntry /\ slots[j] # NoEntry /\ slots[j].chromosome = offspring

\* a task leaves its map_op
TaskEnds == \E t \in running : t \notin running' /\ slots'[t.task] # NoEntry

\* the task that leaves its map_op
EndingTask == CHOOSE t \in running : t \notin running'

\* C35: under every interleaving of the tasks of a parallel iterator no
\* (decoder, RNG) pair is with two tasks at once and no index is run twice;
\* a task leaves with what a decoder that has decoded nothing returns for
\* its chromosome, whatever its decoder decoded before; and the vector
\* collected, with the elites, makes a population of population_size entries.
C35_TasksKeepTheirDecoder ==
    /\ [](\A t, u \in running : t # u => t.decoder # u.decoder /\ t.task # u.task)
    /\ [][/\ TaskEnds
             => \E f \in decode_chromosome(<<>>, slots'[EndingTask.task].chromosome) :
                   f.entry = slots'[EndingTask.task]
          /\ (gpc \in {"init", "evolve"} /\ gpc' = "loop")
             => running = {} /\ Len(population') = params.population_size]_vars

\* two tasks are in their map_op at once, one of them with a decoder that
\* has decoded before
C35_Witness ==
    /\ gpc = "evolve"
    /\ Cardinality(running) = 2
    /\ \E t \in running : decoders[t.decoder] # <<>>

\* C36: of two decoded solutions of the problem the one with fewer bins has
\* the lower fitness; the least load of a solution is positive and at most
\* the volume of the bin, so that least_load / bin_volume lies in (0, 1].
C36_FewerBinsFirst ==
    /\ \A e \in HeldEntries :
          /\ 0 < e.solution.least_load
          /\ e.solution.least_load <= bin_spec.width * bin_spec.depth * bin_spec.height
    /\ \A a, b \in HeldEntries :
          a.solution.num_bins < b.solution.num_bins => a.fitness < b.fitness

\* the population holds a solution of one full bin, whose load term is the
\* largest there is, and a solution of two bins
C36_Witness ==
    /\ gpc = "loop"
    /\ \E a, b \in HeldEntries :
          /\ a.solution.num_bins = 1
          /\ a.solution.least_load = bin_spec.width * bin_spec.depth * bin_spec.height
          /\ b.solution.num_bins = 2

\* a step that ends init_first_generation or evolve_new_generation
StepEnds == gpc \in {"init", "evolve"} /\ gpc' = "loop"

\* C37: with num_elites >= 1, every step that ends the initial generation or
\* a generation step leaves as incumbent an individual no worse than any
\* the Solver held during the step (the previous population and everything
\* decoded in the step), and solve returns the solution of the incumbent,
\* whose fitness is the least of the population: the least fitness ever
\* decoded.
C37_ReturnsBestDecoded ==
    /\ [][(StepEnds /\ params.num_elites >= 1)
             => \A e \in HeldEntries : population'[1].fitness <= e.fitness]_vars
    /\ []((gpc = "returned" /\ params.num_elites >= 1)
             => /\ result = population[1].solution
                /\ \A e \in HeldEntries :
                      fitness_of(result, volume(bin_spec)) <= e.fitness)

\* solve returned after two generations or more, the last of them without
\* improvement, with a worse individual in the population
C37_Witness ==
    /\ gpc = "returned"
    /\ params.num_elites >= 1
    /\ generation >= 2
    /\ generations_no_improvement >= 1
    /\ population[Len(population)].fitness > fitness_of(result, volume(bin_spec))

(***************************************************************************)
(* Claims about the input form.                                            *)
(***************************************************************************)
\* the item it fits the bin b in one of the orientations the rotation type
\* tp admits
ItemFitsBin(it, b, tp) ==
    \E k \in 1..Len(rotate_cuboid(tp, Cuboid(it.width, it.depth, it.height))) :
        FitsIn(rotate_cuboid(tp, Cuboid(it.width, it.depth, it.height))[k],
               from_placement(Point(0, 0, 0), b))

\* C38 as stated: a problem sent to the pack worker has at least one item,
\* a bin of positive width, depth and height, and only items that fit the
\* bin in an admissible orientation; a problem the validation rejects is
\* not sent.
C38_SentProblemsAreValid ==
    \A k \in 1..Len(request) :
        /\ validate(request[k]) = "Ok"
        /\ request[k].items # <<>>
        /\ request[k].bin.width > 0 /\ request[k].bin.depth > 0 /\ request[k].bin.height > 0
        /\ \A i \in 1..Len(request[k].items) :
              ItemFitsBin(request[k].items[i], request[k].bin,
                          request[k].params.box_rotation_type)

\* the step assigns the value parsed from s, of type T, to the field of the
\* parameters and changes nothing else of the form; nothing at all when s
\* does not parse
SetsOnlyParam(field, T, s) ==
    /\ problem_spec' = IF parse_number(T, s) = <<>> THEN problem_spec
                        ELSE [problem_spec EXCEPT !.params[field] = parse_number(T, s)[1]]
    /\ UNCHANGED <<file_name, request>>

\* the same for a field of the bin
SetsOnlyBin(field, s) ==
    /\ problem_spec' = IF parse_number("i32", s) = <<>> THEN problem_spec
                        ELSE [problem_spec EXCEPT !.bin[field] = parse_number("i32", s)[1]]
    /\ UNCHANGED <<file_name, request>>

\* C39 as stated: UpdateMutantsPer(v) sets mutants_percentage to v and
\* leaves the other parameters, max_generations among them, the bin and
\* the items as they are; every Update message sets the field it is named
\* after and nothing else.
C39_UpdateSetsOwnField ==
    [][\A s \in Inputs :
          /\ UpdateMutantsPer(s) => SetsOnlyParam("mutants_percentage", "f64", s)
          /\ UpdateBinWidth(s) => SetsOnlyBin("width", s)
          /\ UpdateBinDepth(s) => SetsOnlyBin("depth", s)
          /\ UpdateBinHeight(s) => SetsOnlyBin("height", s)
          /\ UpdatePopFactor(s) => SetsOnlyParam("population_factor", "usize", s)
          /\ UpdateElitesPer(s) => SetsOnlyParam("elites_percentage", "f64", s)
          /\ UpdateProb(s) => SetsOnlyParam("inherit_elite_probability", "f64", s)
          /\ UpdateMaxGen(s) => SetsOnlyParam("max_generations", "i32", s)
          /\ UpdateMaxGenNoImprove(s)
                => SetsOnlyParam("max_generations_no_improvement", "i32", s)]_vars

\* the slice the older place_boxes hands to min_dimension_and_volume
PackerSlice == SubSeq(bps, bps_idx + 1, Len(bps))

volume_of_space(sp) == width(sp) * depth(sp) * height(sp)

\* the least smallest_dimension and the least volume of the boxes of a slice
LeastOfSlice(slice) ==
    <<SetMin({boxes[slice[k][1] + 1].smallest_dimension : k \in 1..Len(slice)}),
      SetMin({boxes[slice[k][1] + 1].volume : k \in 1..Len(slice)})>>

\* C40 as stated: in the older placer min_dimension_and_volume returns the
\* least smallest_dimension and the least volume of the boxes of the slice
\* it is given, so the thresholds of a turn are those of the smallest item
\* of the slice and the filter keeps no candidate smaller than that item.
C40_OlderThresholdsAreMinima ==
    /\ pc = "thresholds" => <<min_dimension, min_volume>> = LeastOfSlice(PackerSlice)
    /\ (pc = "idle" /\ bps_idx > 0)
          => \E least \in {LeastOfSlice(SubSeq(bps, bps_idx, Len(bps)))} :
                \A k \in 1..Len(new_spaces) :
                    /\ Min2(Min2(width(new_spaces[k]), depth(new_spaces[k])),
                            height(new_spaces[k])) >= least[1]
                    /\ volume_of_space(new_spaces[k]) >= least[2]

====
